---- MODULE Spec2Model ----
(***************************************************************************)
(* Gnoke-OBD2: the OBD-II kernel (command queue, drain loop, response      *)
(* wait, disconnect) and the polling samplers built on top of it.          *)
(*                                                                         *)
(* Spec         the kernel, class OBDInterface.  Time passes in steps of   *)
(*              the 50 ms response poll; every Date.now() difference the   *)
(*              code computes is kept as an elapsed time, which saturates  *)
(*              where the code no longer tells larger values apart.        *)
(* SamplerSpec  one sampler (Timing, Emissions, Battery, Engine or the     *)
(*              Dashboard) polling through the kernel's FIFO queue.        *)
(***************************************************************************)
EXTENDS Integers, Sequences, FiniteSets, TLC

(***************************************************************************)
(* Bounds of the model.                                                    *)
(***************************************************************************)
MaxCmds == 3

MaxInv == 3

\* the capture timers of the recorder that can be pending at one time
MaxLoops == 3

MaxData == 2

(***************************************************************************)
(* Program constants.                                                      *)
(***************************************************************************)
minCommandDelay == 150
PollInterval == 50

maxErrors == 3

maxHistoryLength == 20

\* RecorderApp.maxRecordingSize
maxRecordingSize == 10000

\* timeout arguments of sendCommand(cmd, timeout), in ms.
Timeouts == {40, 100}

CmdIds == 1..MaxCmds

\* the update cycles of a sampler that can be under way at one time
Slots == 1..MaxInv

\* the keys of this.supported, the two parameters EngineApp always reads and
\* the ones DashboardApp reads
Params == {"timing", "load", "stft1", "ltft1", "o2s1", "o2s2", "maf",
           "battery", "rpm", "speed", "iat", "coolant", "fuel", "throttle"}

Max(a, b) == IF a > b THEN a ELSE b

Min(a, b) == IF a < b THEN a ELSE b

VARIABLES
    connected,        \* this.connected
    writer,           \* this.writer (serial) or this.characteristic (BLE) is set
    transport,        \* the byte channel: "closed", "ok", or "failed" (the device is lost: the pending read and every later write reject)
    closing,          \* disconnect() is suspended in its awaits (reader.cancel, writer.close, port.close)
    buffer,           \* this.buffer: the commands whose terminated response it holds
    commandQueue,     \* this.commandQueue
    isProcessingQueue,\* this.isProcessingQueue
    sinceLastCommand, \* Date.now() - this.lastCommandTime, saturating at minCommandDelay
    nextId,           \* the next sendCommand call is the nextId-th submission
    timeoutOf,        \* timeout of each pending queue entry
    phase,            \* where each submitted command is
    timer,            \* per command: time left of its delay timer, then Date.now() - start of waitForResponse; history: while it is queued, the time since its submission
    result,           \* per resolved command: whose response bytes the text it resolved with holds
    adapter,          \* commands written to the transport and not yet answered by the adapter
    settleOrder,      \* history: commands in the order their promises settled
    written,          \* history: pending commands whose bytes were written to the transport
    anyWrite,         \* history: some command was written to the transport
    sinceLastWrite,   \* history: time since the last physical write, saturating at minCommandDelay
    everDisconnected  \* history: disconnect() has been called

kvars == <<connected, writer, transport, closing, buffer, commandQueue, isProcessingQueue,
           sinceLastCommand, nextId, timeoutOf, phase, timer, result, adapter,
           settleOrder, written, anyWrite, sinceLastWrite, everDisconnected>>

VARIABLES
    app,               \* the sampler that is loaded ("none": the kernel alone)
    obd,               \* window.obd: "null", "kernel" (an OBDInterface) or "demo" ({ connected: true })
    obdConnected,      \* window.obd.connected of the kernel
    obdWriter,         \* the kernel's writer / characteristic is set
    obdClosing,        \* System.shutdown() is suspended in await window.obd.disconnect()
    obdQueue,          \* the kernel's commandQueue: the invocations whose request is queued
    obdBuffer,         \* the kernel's buffer: the answer it holds, with its prompt
    obdProcessing,     \* the kernel's isProcessingQueue
    cooling,           \* Date.now() - lastCommandTime < minCommandDelay
    request,           \* per invocation: where its sendCommand is
    step,              \* per invocation: the index in Steps(app) of the sendCommand it awaits (0: free)
    supported,         \* this.supported
    consecutiveErrors, \* this.consecutiveErrors
    historyLength,     \* this.voltageHistory.length (BatteryApp)
    isActive,          \* this.isActive
    isBusy,            \* this.isBusy (DashboardApp)
    updateInterval,    \* this.updateInterval is set
    dashVisible,       \* the view with id "dash" has class "active"
    staleWrite,        \* history: the command on the transport was written when its parameter was already marked unsupported
    succeeded,         \* history: the invocations one of whose fetches was answered
    failedCycles       \* history: consecutive completed update cycles all of whose fetches failed, up to maxErrors (samplers with maxErrors)

svars == <<app, obd, obdConnected, obdWriter, obdClosing, obdQueue, obdBuffer,
           obdProcessing, cooling, request, step, supported, consecutiveErrors,
           historyLength, isActive, isBusy, updateInterval, dashVisible,
           staleWrite, succeeded, failedCycles>>

VARIABLES
    initPc,            \* initELM327: the index in initCommands of the command of the for loop (0: not begun)
    initPhase,         \* connectSerial / initELM327: "idle", "sending" (in await sendCommand), "pausing" (in the await of the setTimeout), "returned"
    connectResult,     \* what connectSerial returned: "none", "true" or "false"
    submittedCmds,     \* history: the commands initELM327 handed to sendCommand, in order
    warned             \* history: the steps whose failure was logged as "Init warning"

ivars == <<initPc, initPhase, connectResult, submittedCmds, warned>>

VARIABLES
    fn,                \* the decoder function that is called ("none": no call)
    arg,               \* its argument
    returned,          \* it has returned
    ret,               \* its return value
    monitors,          \* ReadinessApp.monitors
    milStatus,         \* ReadinessApp.milStatus
    dtcCount           \* ReadinessApp.dtcCount

dvars == <<fn, arg, returned, ret, monitors, milStatus, dtcCount>>

VARIABLES
    snapshots,         \* PredictiveApp.snapshots (<<>> also while it is undefined)
    snapshotsSet,      \* this.snapshots has been assigned
    loadPending,       \* loadStoredData() is suspended in its awaits of window.storage.get
    storedSnapshots,   \* what window.storage holds under predictive_snapshots
    storedPredictions, \* what window.storage holds under predictive_predictions
    predictions,       \* PredictiveApp.predictions
    isAnalyzing,       \* PredictiveApp.isAnalyzing
    dataCollectionInterval, \* PredictiveApp.dataCollectionInterval is set
    collected,         \* history: the snapshots stored so far, the loaded ones included
    analyzed,          \* history: the snapshots the last runAnalysis() call found
    runOutcome,        \* history: how the last runAnalysis() call ended: "none", "insufficient", "running", "complete"
    voltageHistory,    \* BatteryApp.voltageHistory, in mV (the samplers' specification keeps its length alone)
    trimHistory,       \* EmissionsApp.trimHistory, in 1/128 %
    testResults,       \* MonitoringApp.testResults
    coolantTemp        \* DashboardApp.simState.coolantTemp (0: the dashboard is not loaded)

pvars == <<snapshots, snapshotsSet, loadPending, storedSnapshots,
           storedPredictions, predictions, isAnalyzing, dataCollectionInterval,
           collected, analyzed, runOutcome, voltageHistory, trimHistory,
           testResults, coolantTemp>>

VARIABLES
    loaded,            \* loadPlugins: the entries of PLUGINS its for loop is through with
    activeApps,        \* System.activeApps: the ids registered
    pluginActive,      \* the samplers whose isActive is true, as the loader leaves them
    isScanning,        \* DiagnosticsApp.isScanning
    awaited,           \* per app: the command whose sendCommand promise it awaits (0: none)
    isRecording,       \* RecorderApp.isRecording
    recordedData,      \* RecorderApp.recordedData.length
    captureLoops       \* the pending timers of "setTimeout(() => this.captureLoop(), 100)"

hvars == <<loaded, activeApps, pluginActive, isScanning, awaited, isRecording,
           recordedData, captureLoops>>

vars == <<kvars, svars, ivars, dvars, pvars, hvars>>

\* what the actions of the kernel, and of a sampler, leave alone
nonKernel == <<svars, ivars, dvars, pvars, hvars>>

nonSampler == <<kvars, ivars, dvars, pvars, hvars>>

\* The page before loadPlugins has loaded a script.
InitHost ==
    /\ loaded = 0
    /\ activeApps = {}
    /\ pluginActive = {}
    /\ isScanning = FALSE
    /\ awaited = [a \in {"diagnostics", "dashboard"} |-> 0]
    /\ isRecording = FALSE
    /\ recordedData = 0
    /\ captureLoops = 0

\* The sampler after init(), before any connection; with "none" no sampler
\* is loaded.
InitSampler(a) ==
    /\ app = a
    /\ obd = "null"
    /\ obdConnected = FALSE
    /\ obdWriter = FALSE
    /\ obdClosing = FALSE
    /\ obdQueue = <<>>
    /\ obdBuffer = <<>>
    /\ obdProcessing = FALSE
    /\ cooling = FALSE
    /\ request = [s \in Slots |-> "none"]
    /\ step = [s \in Slots |-> 0]
    /\ supported = [p \in Params |-> TRUE]
    /\ consecutiveErrors = 0
    /\ historyLength = 0
    /\ isActive = FALSE
    /\ isBusy = FALSE
    /\ updateInterval = (a # "none")
    /\ dashVisible = FALSE
    /\ staleWrite = FALSE
    /\ succeeded = {}
    /\ failedCycles = 0

\* connectSerial has not been called.
InitSession ==
    /\ initPc = 0
    /\ initPhase = "idle"
    /\ connectResult = "none"
    /\ submittedCmds = <<>>
    /\ warned = {}

\* The keys of ReadinessApp.monitors: the continuous monitors and the
\* non-continuous ones.
Continuous == {"misfire", "fuelSystem", "components"}

NonContinuous == {"catalyst", "heatedCatalyst", "evapSystem", "secondaryAir",
                  "acRefrigerant", "oxygenSensor", "oxygenSensorHeater",
                  "egrSystem"}

\* ReadinessApp as the script leaves it: no monitor supported or complete,
\* MIL off, no stored code.
InitReadiness ==
    /\ monitors = [m \in Continuous \cup NonContinuous |->
                      [supported |-> FALSE, complete |-> FALSE]]
    /\ milStatus = FALSE
    /\ dtcCount = 0

\* No decoder function is called.
InitDecoder ==
    /\ fn = "none"
    /\ arg = <<>>
    /\ returned = FALSE
    /\ ret = <<>>
    /\ InitReadiness

\* The predictive module and the plugins it reads, as the scripts leave
\* them, with loadStoredData() waiting for the storage that holds the
\* snapshots sn and the predictions pr; ct is simState.coolantTemp.
InitPredictive(sn, pr, ct) ==
    /\ snapshots = <<>>
    /\ snapshotsSet = FALSE
    /\ loadPending = TRUE
    /\ storedSnapshots = sn
    /\ storedPredictions = pr
    /\ predictions = <<>>
    /\ isAnalyzing = FALSE
    /\ dataCollectionInterval = TRUE
    /\ collected = Len(sn)
    /\ analyzed = <<>>
    /\ runOutcome = "none"
    /\ voltageHistory = <<>>
    /\ trimHistory = <<>>
    /\ testResults = <<>>
    /\ coolantTemp = ct

(***************************************************************************)
(* The kernel.                                                             *)
(***************************************************************************)

\* The part of the state the drain loop works on, as one value.
KState ==
    [q |-> commandQueue, run |-> isProcessingQueue, ph |-> phase, tm |-> timer,
     buf |-> buffer, adp |-> adapter, wr |-> written, slw |-> sinceLastWrite,
     any |-> anyWrite]

SetKState(k) ==
    /\ commandQueue' = k.q
    /\ isProcessingQueue' = k.run
    /\ phase' = k.ph
    /\ timer' = k.tm
    /\ buffer' = k.buf
    /\ adapter' = k.adp
    /\ written' = k.wr
    /\ sinceLastWrite' = k.slw
    /\ anyWrite' = k.any

\* A queue that hands out its newest entry.
ShiftLast(q) == [cmd |-> q[Len(q)], rest |-> SubSeq(q, 1, Len(q) - 1)]

\* this.commandQueue.shift()
Shift(q) == [cmd |-> Head(q), rest |-> Tail(q)]

\* this.commandQueue.push({ cmd, resolve, reject, timeout })
Push(q, c) == Append(q, c)

\* The try block of processQueue up to waitForResponse: clear the buffer,
\* write the bytes if a writer or a characteristic is set, start the wait.
\* On a failed transport the loop is left suspended in the await of a
\* write that rejects ("failing").
WriteCommand(k, c) ==
    LET k1 == [k EXCEPT !.buf = {}, !.ph[c] = "waiting", !.tm[c] = 0]
    IN IF writer
       THEN IF transport = "failed"
            THEN [k1 EXCEPT !.ph[c] = "failing"]
            ELSE [k1 EXCEPT !.adp = @ \cup {c},
                            !.wr = @ \cup {c},
                            !.any = TRUE,
                            !.slw = 0]
       ELSE k1

\* The while loop of processQueue from its test to the next suspension.
Drain(k, since) ==
      \* const wait = Math.max(0, this.minCommandDelay - (now - this.lastCommandTime))
  LET Wait == Max(0, minCommandDelay - since)
  IN
    IF k.q = <<>>
    THEN [k EXCEPT !.run = FALSE]
    ELSE LET s == Shift(k.q)
             k1 == [k EXCEPT !.q = s.rest]
         IN IF Wait > 0
            THEN [k1 EXCEPT !.ph[s.cmd] = "delay", !.tm[s.cmd] = Wait]
            ELSE WriteCommand(k1, s.cmd)

processQueue(k, since) ==
    IF k.run \/ k.q = <<>> THEN k ELSE Drain([k EXCEPT !.run = TRUE], since)

\* The state after "new OBDInterface()".  lastCommandTime is 0 and
\* Date.now() is far beyond minCommandDelay.
InitKernel ==
    /\ connected = FALSE
    /\ writer = FALSE
    /\ transport = "closed"
    /\ closing = FALSE
    /\ buffer = {}
    /\ commandQueue = <<>>
    /\ isProcessingQueue = FALSE
    /\ sinceLastCommand = minCommandDelay
    /\ nextId = 1
    /\ timeoutOf = [c \in CmdIds |-> 0]
    /\ phase = [c \in CmdIds |-> "new"]
    /\ timer = [c \in CmdIds |-> 0]
    /\ result = [c \in CmdIds |-> "none"]
    /\ adapter = {}
    /\ settleOrder = <<>>
    /\ written = {}
    /\ anyWrite = FALSE
    /\ sinceLastWrite = minCommandDelay
    /\ everDisconnected = FALSE

\* connectSerial / connectBLE up to this.connected = true.  The commands of
\* initELM327 are submissions like any other (SendCommand).
Connect ==
    /\ ~connected
    /\ ~closing
    /\ ~writer
    /\ writer' = TRUE
    /\ transport' = "ok"
    /\ connected' = TRUE
    /\ UNCHANGED <<closing, buffer, commandQueue, isProcessingQueue,
                   sinceLastCommand, nextId, timeoutOf, phase, timer, result,
                   adapter, settleOrder, written, anyWrite, sinceLastWrite,
                   everDisconnected>>
    /\ UNCHANGED nonKernel

\* sendCommand(cmd, timeout): push, then processQueue() up to its first await.
SendCommand(t) ==
    /\ nextId <= MaxCmds
    /\ LET c == nextId
           k == [KState EXCEPT !.q = Push(@, c), !.ph[c] = "queued"]
       IN SetKState(processQueue(k, sinceLastCommand))
    /\ timeoutOf' = [timeoutOf EXCEPT ![nextId] = t]
    /\ nextId' = nextId + 1
    /\ UNCHANGED <<connected, writer, transport, closing, sinceLastCommand, result,
                   settleOrder, everDisconnected>>
    /\ UNCHANGED nonKernel

\* The timer of "if (wait > 0) await new Promise(r => setTimeout(r, wait))".
DelayElapsed(c) ==
    /\ phase[c] = "delay"
    /\ timer[c] = 0
    /\ SetKState(WriteCommand(KState, c))
    /\ UNCHANGED <<connected, writer, transport, closing, sinceLastCommand, nextId,
                   timeoutOf, result, settleOrder, everDisconnected>>
    /\ UNCHANGED nonKernel

\* handleIncomingData(data): the adapter's answer to command c, with its
\* prompt, is appended to the buffer.
handleIncomingData(c) ==
    /\ writer
    /\ transport = "ok"
    /\ c \in adapter
    /\ buffer' = buffer \cup {c}
    /\ adapter' = adapter \ {c}
    /\ UNCHANGED <<connected, writer, transport, closing, commandQueue, isProcessingQueue,
                   sinceLastCommand, nextId, timeoutOf, phase, timer, result,
                   settleOrder, written, anyWrite, sinceLastWrite,
                   everDisconnected>>
    /\ UNCHANGED nonKernel

\* processQueue after waitForResponse resolved for command c:
\* this.lastCommandTime = Date.now(); resolve(result); next iteration.
ResolveAndContinue(k, c) ==
    Drain([k EXCEPT !.ph[c] = "resolved", !.tm[c] = 0, !.wr = @ \ {c}], 0)

\* A drain loop that gives up at the first failed command.
RejectAndStop(k, c, since) ==
    [k EXCEPT !.ph[c] = "rejected", !.tm[c] = 0, !.wr = @ \ {c}, !.run = FALSE]

\* processQueue after waitForResponse rejected for command c:
\* catch (err) { reject(err); } and the next iteration; lastCommandTime is
\* not touched.
RejectAndContinue(k, c, since) ==
    Drain([k EXCEPT !.ph[c] = "rejected", !.tm[c] = 0, !.wr = @ \ {c}], since)

\* waitForResponse: a firing of the 50 ms interval that finds the prompt;
\* processQueue then sets lastCommandTime, resolves and goes on with the queue.
ResponseFound(c) ==
      \* resolve(this.buffer.replace('>', '').trim()): the text is everything the
      \* buffer holds, "own" if all of it answers command c, "foreign" if some of it
      \* answers another command.
  LET ResultOf(buf) == IF buf \subseteq {c} THEN "own" ELSE "foreign"
  IN
    /\ phase[c] = "waiting"
    /\ timer[c] >= PollInterval
    /\ buffer # {}
    /\ result' = [result EXCEPT ![c] = ResultOf(buffer)]
    /\ sinceLastCommand' = 0
    /\ settleOrder' = Append(settleOrder, c)
    /\ timeoutOf' = [timeoutOf EXCEPT ![c] = 0]
    /\ SetKState(ResolveAndContinue(KState, c))
    /\ UNCHANGED <<connected, writer, transport, closing, nextId, everDisconnected>>
    /\ UNCHANGED nonKernel

\* waitForResponse: a firing of the interval that finds no prompt after the
\* timeout; processQueue rejects in its catch and goes on with the queue.
ResponseTimeout(c) ==
    /\ phase[c] = "waiting"
    /\ timer[c] >= PollInterval
    /\ buffer = {}
    /\ timer[c] > timeoutOf[c]
    /\ settleOrder' = Append(settleOrder, c)
    /\ timeoutOf' = [timeoutOf EXCEPT ![c] = 0]
    /\ SetKState(RejectAndContinue(KState, c, sinceLastCommand))
    /\ UNCHANGED <<connected, writer, transport, closing, sinceLastCommand, nextId, result,
                   everDisconnected>>
    /\ UNCHANGED nonKernel

\* The device is lost.  reader.read() rejects: the catch of startReading
\* logs "Read error" and leaves the read loop; nothing more is received.
TransportFails ==
    /\ transport = "ok"
    /\ transport' = "failed"
    /\ UNCHANGED <<connected, writer, closing, buffer, commandQueue,
                   isProcessingQueue, sinceLastCommand, nextId, timeoutOf, phase,
                   timer, result, adapter, settleOrder, written, anyWrite,
                   sinceLastWrite, everDisconnected>>
    /\ UNCHANGED nonKernel

\* writer.write() of command c rejects: processQueue rejects the command in
\* its catch and goes on with the queue.
WriteFailed(c) ==
    /\ phase[c] = "failing"
    /\ settleOrder' = Append(settleOrder, c)
    /\ timeoutOf' = [timeoutOf EXCEPT ![c] = 0]
    /\ SetKState(RejectAndContinue(KState, c, sinceLastCommand))
    /\ UNCHANGED <<connected, writer, transport, closing, sinceLastCommand,
                   nextId, result, everDisconnected>>
    /\ UNCHANGED nonKernel

\* disconnect() up to its first await.  With a serial port it suspends in
\* reader.cancel() and the writer stays set until DisconnectFinish; with
\* BLE, where reader, writer and port are null, it runs to its end at once
\* (Disconnect directly followed by DisconnectFinish).
disconnect ==
    /\ ~closing
    /\ connected' = FALSE
    /\ commandQueue' = <<>>
    /\ isProcessingQueue' = FALSE
    /\ phase' = [c \in CmdIds |-> IF phase[c] = "queued" THEN "dropped" ELSE phase[c]]
    /\ timeoutOf' = [c \in CmdIds |-> IF phase[c] = "queued" THEN 0 ELSE timeoutOf[c]]
    /\ closing' = writer
    /\ everDisconnected' = TRUE
    /\ timer' = [c \in CmdIds |-> IF phase[c] = "queued" THEN 0 ELSE timer[c]]
    /\ UNCHANGED <<writer, transport, buffer, sinceLastCommand, nextId, result,
                   adapter, settleOrder, written, anyWrite, sinceLastWrite>>
    /\ UNCHANGED nonKernel

\* disconnect() after its awaits: this.writer = null, this.port = null,
\* this.characteristic = null.
DisconnectFinish ==
    /\ closing
    /\ closing' = FALSE
    /\ writer' = FALSE
    /\ transport' = "closed"
    /\ UNCHANGED <<connected, buffer, commandQueue, isProcessingQueue,
                   sinceLastCommand, nextId, timeoutOf, phase, timer, result,
                   adapter, settleOrder, written, anyWrite, sinceLastWrite,
                   everDisconnected>>
    /\ UNCHANGED nonKernel

\* The time a waitForResponse has run is told apart up to its timeout.
WaitCap(c) == timeoutOf[c] - (timeoutOf[c] % PollInterval) + PollInterval

\* 50 ms pass.
Tick ==
  LET TimerAfter(c) ==
            \* The time a command has been queued is followed one poll further.
        LET QueueCap == WaitCap(c) + PollInterval
        IN
          CASE phase[c] = "delay" -> Max(0, timer[c] - PollInterval)
            [] phase[c] = "waiting" -> Min(WaitCap(c), timer[c] + PollInterval)
            [] phase[c] = "queued" -> Min(QueueCap, timer[c] + PollInterval)
            [] OTHER -> timer[c]
  IN
    /\ timer' = [c \in CmdIds |-> TimerAfter(c)]
    /\ sinceLastCommand' = Min(minCommandDelay, sinceLastCommand + PollInterval)
    /\ sinceLastWrite' = Min(minCommandDelay, sinceLastWrite + PollInterval)
    /\ UNCHANGED <<connected, writer, transport, closing, buffer, commandQueue,
                   isProcessingQueue, nextId, timeoutOf, phase, result, adapter,
                   settleOrder, written, anyWrite, everDisconnected>>
    /\ UNCHANGED nonKernel

Init ==
    /\ InitKernel
    /\ InitSampler("none")
    /\ InitSession
    /\ InitDecoder
    /\ InitPredictive(<<>>, <<>>, 70)
    /\ InitHost

Next ==
    \/ Connect
    \/ \E t \in Timeouts : SendCommand(t)
    \/ \E c \in CmdIds : DelayElapsed(c)
    \/ \E c \in CmdIds : handleIncomingData(c)
    \/ \E c \in CmdIds : ResponseFound(c)
    \/ \E c \in CmdIds : ResponseTimeout(c)
    \/ TransportFails
    \/ \E c \in CmdIds : WriteFailed(c)
    \/ disconnect
    \/ DisconnectFinish
    \/ Tick

Spec == Init /\ [][Next]_vars

(***************************************************************************)
(* Derived notions.                                                        *)
(***************************************************************************)
Submitted == 1..(nextId - 1)

(***************************************************************************)
(* Claims about the kernel, checked under Spec.                            *)
(***************************************************************************)

\* C1: at most one command is in flight on the transport (written and still
\* awaiting its response or timeout), for any interleaving of sendCommand,
\* incoming data, timeouts and disconnect.  Each command in flight is held
\* by a drain loop of its own, so two in flight are two loops running.
SingleFlight ==
      \* written and still awaiting its response or timeout
  LET InFlight == {c \in Submitted : phase[c] = "waiting" /\ c \in written}
  IN
    Cardinality(InFlight) <= 1

\* C2: commands settle (resolve or reject) in the order in which they were
\* submitted, whatever the response delays.  Commands are numbered in
\* submission order; the claim is about submissions and delays, so it is
\* stated for the runs in which disconnect() has not been called.
FifoSettleOrder ==
    ~everDisconnected =>
        \A i \in 1..Len(settleOrder) : settleOrder[i] = i

\* Three commands have settled in a session, one by a response and one by a
\* timeout.
FifoSettleWitness ==
    /\ ~everDisconnected
    /\ Len(settleOrder) >= 3
    /\ \E c \in Submitted : phase[c] = "resolved"
    /\ \E c \in Submitted : phase[c] = "rejected"

\* C3: the time between two consecutive physical writes is never less than
\* minCommandDelay, whatever the outcomes and timeouts of the commands.
MinimumSpacing ==
    [][(~everDisconnected /\ anyWrite /\ written' \ written # {})
          => sinceLastWrite >= minCommandDelay]_vars

\* C4: no cross-talk: the text a command resolves with holds only bytes the
\* adapter sent in answer to that command; a late response is never
\* delivered as the result of a later command.
NoCrossTalk ==
    ~everDisconnected => \A c \in Submitted : result[c] # "foreign"

\* C5: a command that times out is rejected and the queue goes on: the drain
\* loop takes the next queued command, in submission order, in the same
\* step, and whenever commands are queued a drain loop is running.
TimeoutKeepsDraining ==
    [][LET TimedOut(c) == phase[c] = "waiting" /\ phase'[c] = "rejected"
           \* a drain loop is suspended in its delay, in a write or in
           \* waitForResponse
           Draining == {c \in Submitted : phase[c] \in {"delay", "waiting", "failing"}}
       IN ~everDisconnected' =>
            /\ \A c \in CmdIds :
                  (TimedOut(c) /\ commandQueue # <<>>) =>
                      /\ phase'[Head(commandQueue)] \in {"delay", "waiting", "failing"}
                      /\ commandQueue' = Tail(commandQueue)
                      /\ isProcessingQueue'
            /\ commandQueue' # <<>> => (isProcessingQueue' /\ Draining' # {})]_vars

\* A command timed out and a command submitted after it was then written and
\* resolved.
TimeoutKeepsDrainingWitness ==
    /\ ~everDisconnected
    /\ \E c, d \in Submitted :
          c < d /\ phase[c] = "rejected" /\ phase[d] = "resolved"

\* C6: disconnect() rejects every queued and in-flight command: no command
\* submitted before a disconnect stays pending forever.  A command is left
\* pending forever when its promise is unsettled and neither the queue nor a
\* drain loop holds it any more ("dropped").
NoCommandLeftPending ==
    \A c \in Submitted : phase[c] # "dropped"

\* C7: a sendCommand submitted after disconnect() is rejected at once: it is
\* not enqueued, nothing is written and no timeout is awaited.
FailFastAfterDisconnect ==
    [][(everDisconnected /\ ~connected /\ nextId' = nextId + 1) =>
          /\ phase'[nextId] = "rejected"
          /\ commandQueue' = commandQueue
          /\ written' = written]_vars

\* C16: a command's timeout runs from its submission, whatever the queue
\* depth: a command still waiting in the queue has waited no longer than its
\* timeout, give or take one 50 ms poll (a command that waited longer has
\* failed with a timeout).  Stated for a connected session on a working
\* transport, at the moments when the command in flight is within its own
\* timeout.
TimeoutRunsFromSubmission ==
    (/\ connected /\ transport = "ok"
     /\ \A d \in Submitted : phase[d] = "waiting" => timer[d] <= timeoutOf[d]) =>
        \A c \in Submitted :
            phase[c] = "queued" => timer[c] <= timeoutOf[c] + PollInterval

\* C14: a transport-level failure is fatal to the session: the step in
\* which the code takes a receive error (the catch of startReading) or a
\* write error (the catch of processQueue) leaves connected false and the
\* scheduler reset (queue empty, no drain loop marked running).
TransportFailureIsFatal ==
    [][LET ReadError == transport = "ok" /\ transport' = "failed"
           WriteError == \E c \in CmdIds : phase[c] = "failing" /\ phase'[c] = "rejected"
       IN (ReadError \/ WriteError) =>
             /\ ~connected'
             /\ commandQueue' = <<>>
             /\ ~isProcessingQueue']_vars

(***************************************************************************)
(* The adapter session: connectSerial and initELM327.  The kernel's queue  *)
(* is idle while they run (window.obd is published after connect), so      *)
(* each sendCommand of initELM327 is written at once or after the delay    *)
(* and then resolves with the adapter's answer or rejects with the timeout *)
(* or the write error.                                                     *)
(***************************************************************************)
initCommands == <<"ATZ", "ATE0", "ATL0", "ATS0", "ATH1", "ATAT1", "ATSP0">>

\* A for loop that is left at the first failed step: connectSerial's catch
\* returns false.
AbortInit ==
    /\ initPhase' = "returned"
    /\ connectResult' = "false"
    /\ UNCHANGED <<initPc, submittedCmds>>

\* The for loop of initELM327 goes to its next command, or ends: then
\* connectSerial returns true.
ContinueInit ==
    IF initPc < Len(initCommands)
    THEN /\ initPc' = initPc + 1
         /\ initPhase' = "sending"
         /\ submittedCmds' = Append(submittedCmds, initCommands[initPc + 1])
         /\ UNCHANGED connectResult
    ELSE /\ initPhase' = "returned"
         /\ connectResult' = "true"
         /\ UNCHANGED <<initPc, submittedCmds>>

\* catch (err) { System.log('Kernel', `Init warning: ...`) }: the failure
\* is logged and the loop goes on without a pause.
CatchInitWarning == ContinueInit

\* connectSerial(): requestPort() or open() throws and false is returned,
\* or the port opens, connected is set and initELM327 submits its first
\* command.
ConnectSerial(opened) ==
    /\ initPhase = "idle"
    /\ IF opened
       THEN /\ connected' = TRUE
            /\ writer' = TRUE
            /\ transport' = "ok"
            /\ initPc' = 1
            /\ initPhase' = "sending"
            /\ submittedCmds' = <<initCommands[1]>>
            /\ UNCHANGED connectResult
       ELSE /\ initPhase' = "returned"
            /\ connectResult' = "false"
            /\ UNCHANGED <<connected, writer, transport, initPc, submittedCmds>>
    /\ UNCHANGED <<closing, buffer, commandQueue, isProcessingQueue,
                   sinceLastCommand, nextId, timeoutOf, phase, timer, result,
                   adapter, settleOrder, written, anyWrite, sinceLastWrite,
                   everDisconnected>>
    /\ UNCHANGED <<warned, svars, dvars, pvars, hvars>>

\* await this.sendCommand(cmd) resolves: the pause after the command begins
\* (1500 ms after ATZ, 100 ms after the others).
InitAnswered ==
    /\ initPhase = "sending"
    /\ initPhase' = "pausing"
    /\ UNCHANGED <<initPc, connectResult, submittedCmds, warned>>
    /\ UNCHANGED <<kvars, svars, dvars, pvars, hvars>>

\* The pause is over.
InitPauseElapsed ==
    /\ initPhase = "pausing"
    /\ ContinueInit
    /\ UNCHANGED warned
    /\ UNCHANGED <<kvars, svars, dvars, pvars, hvars>>

\* await this.sendCommand(cmd) rejects (timeout or write error).
InitStepFailed ==
    /\ initPhase = "sending"
    /\ warned' = warned \cup {initPc}
    /\ CatchInitWarning
    /\ UNCHANGED <<kvars, svars, dvars, pvars, hvars>>

SessionInit ==
    /\ InitKernel
    /\ InitSampler("none")
    /\ InitSession
    /\ InitDecoder
    /\ InitPredictive(<<>>, <<>>, 70)
    /\ InitHost

SessionNext ==
    \/ \E opened \in BOOLEAN : ConnectSerial(opened)
    \/ InitAnswered
    \/ InitPauseElapsed
    \/ InitStepFailed

SessionSpec == SessionInit /\ [][SessionNext]_vars

\* C15: initELM327 submits ATZ, ATE0, ATL0, ATS0, ATH1, ATAT1, ATSP0 in
\* that order and nothing else, and once connectSerial has opened the port
\* it returns true with all seven submitted, whichever steps failed.
InitSequenceCompletes ==
    /\ Len(submittedCmds) <= Len(initCommands)
    /\ submittedCmds = SubSeq(initCommands, 1, Len(submittedCmds))
    /\ (connected /\ initPhase = "returned") =>
           (connectResult = "true" /\ submittedCmds = initCommands)

\* connectSerial has returned true although the reset and a later step
\* failed and others were answered.
InitSequenceWitness ==
    /\ connectResult = "true"
    /\ submittedCmds = initCommands
    /\ {1, 5} \subseteq warned
    /\ warned # 1..Len(initCommands)

(***************************************************************************)
(* The response decoder.  A text is a sequence of one-character strings.   *)
(***************************************************************************)
HexDigits == {"0", "1", "2", "3", "4", "5", "6", "7", "8", "9",
              "A", "B", "C", "D", "E", "F"}

HexValue(ch) ==
    CASE ch = "0" -> 0 [] ch = "1" -> 1 [] ch = "2" -> 2 [] ch = "3" -> 3
      [] ch = "4" -> 4 [] ch = "5" -> 5 [] ch = "6" -> 6 [] ch = "7" -> 7
      [] ch = "8" -> 8 [] ch = "9" -> 9 [] ch = "A" -> 10 [] ch = "B" -> 11
      [] ch = "C" -> 12 [] ch = "D" -> 13 [] ch = "E" -> 14 [] ch = "F" -> 15
      [] ch = "a" -> 10 [] ch = "b" -> 11 [] ch = "c" -> 12 [] ch = "d" -> 13
      [] ch = "e" -> 14 [] ch = "f" -> 15

\* pat occurs in t at position i
OccursAt(t, pat, i) ==
    /\ i + Len(pat) - 1 <= Len(t)
    /\ SubSeq(t, i, i + Len(pat) - 1) = pat

\* String.prototype.includes
Includes(t, pat) == \E i \in 1..Len(t) : OccursAt(t, pat, i)

\* String.prototype.replace(pat, ''): the first occurrence is removed
RemoveFirst(t, pat) ==
    IF Includes(t, pat)
    THEN LET i == CHOOSE j \in 1..Len(t) :
                     /\ OccursAt(t, pat, j)
                     /\ \A k \in 1..(j - 1) : ~OccursAt(t, pat, k)
         IN SubSeq(t, 1, i - 1) \o SubSeq(t, i + Len(pat), Len(t))
    ELSE t

CleanText(t) ==
      \* String.prototype.toUpperCase on one character
  LET UpperChar(ch) ==
          CASE ch = "a" -> "A" [] ch = "b" -> "B" [] ch = "c" -> "C"
            [] ch = "d" -> "D" [] ch = "e" -> "E" [] ch = "f" -> "F"
            [] OTHER -> ch
  IN
      \* hex.replace(/\s+/g, '').toUpperCase()
  LET IsNotWhitespace(ch) ==
            \* the characters \s matches, as far as the adapter sends them
        LET Whitespace == {" ", "\r", "\n"}
        IN
                             ch \notin Whitespace
  IN
    LET u == SelectSeq(t, IsNotWhitespace)
    IN [i \in 1..Len(u) |-> UpperChar(u[i])]

StripHeader(t) ==
      \* clean.replace(/^[0-9A-F]{2,3}/, ''): the match is greedy
  LET HeaderLength ==
          IF Len(t) >= 3 /\ \A i \in 1..3 : t[i] \in HexDigits THEN 3
          ELSE IF Len(t) >= 2 /\ \A i \in 1..2 : t[i] \in HexDigits THEN 2
          ELSE 0
  IN
                  SubSeq(t, HeaderLength + 1, Len(t))

\* clean.match(/.{1,2}/g)
Pairs(t) ==
    [k \in 1..((Len(t) + 1) \div 2) |-> SubSeq(t, 2 * k - 1, Min(2 * k, Len(t)))]

\* parseInt(p, 16) of a text of one or two characters; "NaN" where it has
\* no leading hex digit.
ParseInt16(p) ==
    IF p[1] \notin HexDigits THEN "NaN"
    ELSE IF Len(p) = 2 /\ p[2] \in HexDigits
         THEN 16 * HexValue(p[1]) + HexValue(p[2])
         ELSE HexValue(p[1])

NoDataText == <<"N", "O", " ", "D", "A", "T", "A">>

Null == [null |-> TRUE, bytes |-> <<>>]

\* window.parseOBDResponse(hex, expectedMode); callers always pass a mode.
parseOBDResponse(hex, expectedMode) ==
  LET ErrorText == <<"E", "R", "R", "O", "R">>
  IN
    IF \/ hex = <<>>
       \/ Includes(hex, NoDataText)
       \/ Includes(hex, <<"?">>)
       \/ Includes(hex, ErrorText)
    THEN Null
    ELSE LET clean == RemoveFirst(StripHeader(CleanText(hex)), expectedMode)
             pairs == Pairs(clean)
         IN IF clean = <<>>
            THEN Null
            ELSE [null |-> FALSE,
                  bytes |-> [k \in 1..Len(pairs) |-> ParseInt16(pairs[k])]]

\* PIDS.<name>.parse(bytes) is null exactly for bytes null (bytes ? ... : null)
ParseIsNull(bytes) == bytes.null

\* decodeDTC: const prefixMap
prefixMap(d) ==
    CASE d = 0 -> <<"P", "0">> [] d = 1 -> <<"P", "1">>
      [] d = 2 -> <<"P", "2">> [] d = 3 -> <<"P", "3">>
      [] d = 4 -> <<"C", "0">> [] d = 5 -> <<"C", "1">>
      [] d = 6 -> <<"C", "2">> [] d = 7 -> <<"C", "3">>
      [] d = 8 -> <<"B", "0">> [] d = 9 -> <<"B", "1">>
      [] d = 10 -> <<"B", "2">> [] d = 11 -> <<"B", "3">>
      [] d = 12 -> <<"U", "0">> [] d = 13 -> <<"U", "1">>
      [] d = 14 -> <<"U", "2">> [] d = 15 -> <<"U", "3">>

\* A prefix that is the fallback whatever the first digit.
DtcPrefixFallback(ch) == <<"P", "0">>

\* prefixMap[parseInt(hex[0], 16)] || 'P0'
DtcPrefix(ch) ==
    IF ch \in HexDigits \cup {"a", "b", "c", "d", "e", "f"}
    THEN prefixMap(HexValue(ch))
    ELSE <<"P", "0">>

\* window.decodeDTC(hex)
decodeDTC(hex) ==
  LET NoCode == [null |-> TRUE, text |-> <<>>]
  IN
    IF hex = <<>> \/ hex = <<"0", "0", "0", "0">>
    THEN NoCode
    ELSE [null |-> FALSE, text |-> DtcPrefix(hex[1]) \o Tail(hex)]

\* a & b on non-negative integers
RECURSIVE BitAnd(_, _)
BitAnd(a, b) ==
    IF a = 0 \/ b = 0
    THEN 0
    ELSE (a % 2) * (b % 2) + 2 * BitAnd(a \div 2, b \div 2)

\* A stored-code count that keeps all eight bits of the byte.
DtcCountWide(a) == BitAnd(a, 255)

\* parseStatus: bytes[0] & 0x7F
DtcCountOf(a) == BitAnd(a, 127)

\* this.monitors after parseStatus(bytes); a monitor it does not assign
\* keeps what it had.
parseStatus(mon, bytes) ==
  LET SupportMask(m) ==
          CASE m = "catalyst" -> 1
            [] m = "heatedCatalyst" -> 2
            [] m = "evapSystem" -> 4
            [] m = "secondaryAir" -> 8
            [] m = "oxygenSensor" -> 32
            [] m = "oxygenSensorHeater" -> 64
            [] m = "egrSystem" -> 128
  IN
      \* parseStatus: the non-continuous monitors it assigns, and the mask each is
      \* tested with in bytes B and C
  LET Assigned == {"catalyst", "heatedCatalyst", "evapSystem", "secondaryAir",
                   "oxygenSensor", "oxygenSensorHeater", "egrSystem"}
  IN
      \* parseStatus: the mask each continuous monitor is tested with in byte C
  LET CompleteMask(m) ==
          CASE m = "misfire" -> 16
            [] m = "fuelSystem" -> 32
            [] m = "components" -> 64
  IN
    LET supportedByte == bytes[2]
        completeByte == bytes[3]
    IN [m \in DOMAIN mon |->
          IF m \in Continuous
          THEN [supported |-> TRUE,
                complete |-> BitAnd(completeByte, CompleteMask(m)) = 0]
          ELSE IF m \in Assigned
               THEN [supported |-> BitAnd(supportedByte, SupportMask(m)) # 0,
                     complete |-> /\ BitAnd(supportedByte, SupportMask(m)) # 0
                                  /\ BitAnd(completeByte, SupportMask(m)) = 0]
               ELSE mon[m]]

\* A 16-bit value taken as it is, without a sign.
SignedOfUnsigned(value) == value

\* parseSignedInt16: value > 32767 ? value - 65536 : value
SignedOf(value) == IF value > 32767 THEN value - 65536 ELSE value

\* undefined, where a byte is expected: no byte is negative
Undefined == -1

\* MonitoringApp.parseSignedInt16(highByte, lowByte): on bytes
\* (highByte << 8) | lowByte is highByte * 256 + lowByte, and an undefined
\* lowByte (an index past the end of the array) counts as 0 under |.
parseSignedInt16(highByte, lowByte) ==
    SignedOf(highByte * 256 + (IF lowByte = Undefined THEN 0 ELSE lowByte))

\* A quotient the script computes in floating point, kept exact as a
\* numerator and a positive denominator.
Quotient(n, d) == [num |-> n, den |-> d]

\* parseTestResults: range > 0 ? (position / range) * 100 : 0
percentToLimit(minValue, maxValue, currentValue) ==
    LET range == maxValue - minValue
        position == currentValue - minValue
    IN IF range > 0 THEN Quotient(position * 100, range) ELSE Quotient(0, 1)

\* evaluateTestStatus(percentToLimit).level
evaluateTestStatus(q) ==
    IF q.num < 50 * q.den THEN "excellent"
    ELSE IF q.num < 75 * q.den THEN "good"
    ELSE IF q.num < 90 * q.den THEN "fair"
    ELSE "warning"

\* bytes[k] of a JavaScript array (k from 0): undefined past its end
ByteAt(bytes, k) == IF k + 1 <= Len(bytes) THEN bytes[k + 1] ELSE Undefined

\* n.toString(16).padStart(2, '0') of a byte
LowerHex2(n) ==
    LET digits == <<"0", "1", "2", "3", "4", "5", "6", "7", "8", "9",
                    "a", "b", "c", "d", "e", "f">>
    IN <<digits[(n \div 16) + 1], digits[(n % 16) + 1]>>

\* parseDTCs: the for loop from index i on (i += 2); bytes[0] is skipped as
\* the count.  byte2 is undefined past the end of the array, and the code is
\* dropped when its first byte prints as '00'.
RECURSIVE CodesFrom(_, _)
CodesFrom(bytes, i) ==
    IF i >= Len(bytes)
    THEN <<>>
    ELSE LET byte1 == LowerHex2(ByteAt(bytes, i))
             second == ByteAt(bytes, i + 1)
             decoded == decodeDTC(byte1 \o LowerHex2(second))
         IN (IF second # Undefined /\ byte1 # <<"0", "0">> /\ ~decoded.null
             THEN <<decoded.text>>
             ELSE <<>>) \o CodesFrom(bytes, i + 2)

\* DiagnosticsApp.parseDTCs(hex)
parseDTCs(hex) ==
    LET bytes == parseOBDResponse(hex, <<"4", "3">>)
    IN IF bytes.null \/ Len(bytes.bytes) < 1 THEN <<>> ELSE CodesFrom(bytes.bytes, 1)

\* parseTestResults: the record pushed for the test at offset i; min, max
\* and value are in thousandths (scale = 0.001).
TestRecord(bytes, i) ==
    LET minValue == parseSignedInt16(ByteAt(bytes, i + 2), ByteAt(bytes, i + 3))
        maxValue == parseSignedInt16(ByteAt(bytes, i + 4), ByteAt(bytes, i + 5))
        currentValue == parseSignedInt16(ByteAt(bytes, i + 6), ByteAt(bytes, i + 7))
    IN [testID |-> LowerHex2(ByteAt(bytes, i)),
        componentID |-> LowerHex2(ByteAt(bytes, i + 1)),
        min |-> minValue,
        max |-> maxValue,
        value |-> currentValue,
        percentToLimit |-> percentToLimit(minValue, maxValue, currentValue),
        status |-> evaluateTestStatus(percentToLimit(minValue, maxValue, currentValue))]

\* parseTestResults: the loop while (i < bytes.length - 6) from offset i
RECURSIVE TestRecordsFrom(_, _)
TestRecordsFrom(bytes, i) ==
    IF i < Len(bytes) - 6
    THEN <<TestRecord(bytes, i)>> \o TestRecordsFrom(bytes, i + 8)
    ELSE <<>>

\* MonitoringApp.parseTestResults on the bytes parseOBDResponse returned:
\* the records it pushes onto testResults
parseTestResults(bytes) ==
    IF bytes.null \/ Len(bytes.bytes) < 4 THEN <<>>
    ELSE TestRecordsFrom(bytes.bytes, 0)

\* The parameters of window.PIDS read here.
PidNames == {"RPM", "SPEED", "COOLANT", "THROTTLE", "FUEL_LEVEL", "BATTERY",
             "ENGINE_LOAD", "TIMING_ADVANCE", "INTAKE_TEMP", "MAF_RATE"}

\* the number of bytes PIDS[name].parse reads
PidWidth(name) == IF name \in {"RPM", "BATTERY", "MAF_RATE"} THEN 2 ELSE 1

NullValue == [null |-> TRUE, num |-> 0, den |-> 1]

\* A parse that returns the first byte as it is.
PidParseUnscaled(name, bytes) ==
    IF ParseIsNull(bytes) THEN NullValue
    ELSE [null |-> FALSE, num |-> bytes.bytes[1], den |-> 1]

\* PIDS[name].parse(bytes)
PidParse(name, bytes) ==
    IF ParseIsNull(bytes) THEN NullValue
    ELSE LET b == bytes.bytes
             q == CASE name = "RPM" -> Quotient(b[1] * 256 + b[2], 4)
                    [] name = "SPEED" -> Quotient(b[1], 1)
                    [] name = "COOLANT" -> Quotient(b[1] - 40, 1)
                    [] name = "THROTTLE" -> Quotient(b[1] * 100, 255)
                    [] name = "FUEL_LEVEL" -> Quotient(b[1] * 100, 255)
                    [] name = "BATTERY" -> Quotient(b[1] * 256 + b[2], 1000)
                    [] name = "ENGINE_LOAD" -> Quotient(b[1] * 100, 255)
                    [] name = "TIMING_ADVANCE" -> Quotient(b[1] - 128, 2)
                    [] name = "INTAKE_TEMP" -> Quotient(b[1] - 40, 1)
                    [] name = "MAF_RATE" -> Quotient(b[1] * 256 + b[2], 100)
         IN [null |-> FALSE, num |-> q.num, den |-> q.den]

(***************************************************************************)
(* The decoder functions applied to inputs: one call per behaviour.        *)
(***************************************************************************)
Bytes == 0..255

\* a byte as the adapter prints it: two hex characters
Hex2(n) ==
  LET HexChars == <<"0", "1", "2", "3", "4", "5", "6", "7", "8", "9",
                    "A", "B", "C", "D", "E", "F">>
  IN
           <<HexChars[(n \div 16) + 1], HexChars[(n % 16) + 1]>>

RECURSIVE DataText(_, _)
DataText(data, sep) ==
    IF data = <<>> THEN <<>>
    ELSE sep \o Hex2(Head(data)) \o DataText(Tail(data), sep)

ResponseText(a) ==
    LET sep == IF a.spaced THEN <<" ">> ELSE <<>>
    IN a.header \o (IF a.header = <<>> THEN <<>> ELSE sep)
         \o SubSeq(a.echo, 1, 2) \o sep \o SubSeq(a.echo, 3, 4)
         \o DataText(a.data, sep)

CallParseOBDResponse ==
    /\ fn = "parseOBDResponse"
    /\ ~returned
    /\ returned' = TRUE
    /\ ret' = parseOBDResponse(ResponseText(arg), arg.echo)
    /\ UNCHANGED <<fn, arg, monitors, milStatus, dtcCount>>
    /\ UNCHANGED <<kvars, svars, ivars, pvars, hvars>>

CallDecodeDTC ==
    /\ fn = "decodeDTC"
    /\ ~returned
    /\ returned' = TRUE
    /\ ret' = decodeDTC(arg)
    /\ UNCHANGED <<fn, arg, monitors, milStatus, dtcCount>>
    /\ UNCHANGED <<kvars, svars, ivars, pvars, hvars>>

\* ReadinessApp.parseStatus(bytes)
CallParseStatus ==
      \* parseStatus: (bytes[0] & 0x80) !== 0
  LET MilOf(a) == BitAnd(a, 128) # 0
  IN
    /\ fn = "parseStatus"
    /\ ~returned
    /\ returned' = TRUE
    /\ milStatus' = MilOf(arg[1])
    /\ dtcCount' = DtcCountOf(arg[1])
    /\ monitors' = parseStatus(monitors, arg)
    /\ UNCHANGED <<fn, arg, ret>>
    /\ UNCHANGED <<kvars, svars, ivars, pvars, hvars>>

CallParseSignedInt16 ==
    /\ fn = "parseSignedInt16"
    /\ ~returned
    /\ returned' = TRUE
    /\ ret' = parseSignedInt16(arg[1], arg[2])
    /\ UNCHANGED <<fn, arg, monitors, milStatus, dtcCount>>
    /\ UNCHANGED <<kvars, svars, ivars, pvars, hvars>>

CallParseTestResults ==
    /\ fn = "parseTestResults"
    /\ ~returned
    /\ returned' = TRUE
    /\ ret' = parseTestResults(arg)
    /\ UNCHANGED <<fn, arg, monitors, milStatus, dtcCount>>
    /\ UNCHANGED <<kvars, svars, ivars, pvars, hvars>>

\* PIDS[name].parse(bytes)
CallPidParse ==
    /\ fn = "parse"
    /\ ~returned
    /\ returned' = TRUE
    /\ ret' = PidParse(arg.name, arg.bytes)
    /\ UNCHANGED <<fn, arg, monitors, milStatus, dtcCount>>
    /\ UNCHANGED <<kvars, svars, ivars, pvars, hvars>>

DecoderInit ==
  LET ParseInputs ==
        LET Echoes == {<<"4", "1", "0", "C">>, <<"4", "1", "0", "5">>, <<"4", "1", "0", "1">>}
            DataSeqs ==
              LET DataBytes == {0, 26, 65, 125, 248}
              IN
                        UNION {[1..n -> DataBytes] : n \in 1..MaxData}
        IN
            \* The responses: a vendor header (absent, or 2 or 3 hex characters), the
            \* echo of mode and PID, and up to MaxData data bytes, printed with or
            \* without spaces.
        LET Headers == {<<>>, <<"7", "E">>, <<"7", "E", "8">>}
        IN
          [header : Headers, echo : Echoes, data : DataSeqs, spaced : BOOLEAN]
      \* the 4-hex-digit codes
      DtcInputs == {<<a, b, c, d>> : a \in HexDigits, b \in HexDigits,
                                    c \in HexDigits, d \in HexDigits}
      \* The status bytes A, B, C, D: every A, and every pair of B and C.
      StatusInputs ==
          {<<a, 0, 0, 0>> : a \in Bytes} \cup {<<0, b, c, 0>> : b \in Bytes, c \in Bytes}
      \* every pair of bytes
      Int16Inputs == {<<hi, lo>> : hi \in Bytes, lo \in Bytes}
      \* The Mode 06 data: nothing, a record cut short, one record, one record
      \* less its last byte, and two records.
      TestInputs ==
            \* one test record: test 01, component 01, then min, max and value
        LET OneTest ==
                  \* The 16-bit words of the test records: 0, 50, 100, 200, -100, -200.
              LET TestWords == {<<0, 0>>, <<0, 50>>, <<0, 100>>, <<0, 200>>, <<255, 156>>,
                                <<255, 56>>}
              IN
                       {<<1, 1>> \o mn \o mx \o cur :
                            mn \in TestWords, mx \in TestWords, cur \in TestWords}
        IN
          {Null}
            \cup {[null |-> FALSE, bytes |-> b] : b \in OneTest}
            \cup {[null |-> FALSE, bytes |-> SubSeq(b, 1, n)] :
                      b \in {<<1, 1, 0, 0, 0, 100, 0, 50>>}, n \in {3, 4, 6, 7}}
            \cup {[null |-> FALSE, bytes |-> b \o <<5, 1, 0, 0, 0, 100, 0, 50>>] :
                      b \in {<<1, 1, 0, 0, 0, 100, 0, 50>>, <<1, 1, 0, 100, 0, 0, 0, 50>>}}
      \* a parameter and as many bytes as its parse function reads, or null
      ScaleInputs ==
        LET ScaleBytes == {0, 26, 55, 66, 125, 128, 248, 255}
        IN
          {[name |-> n, bytes |-> Null] : n \in PidNames}
            \cup {[name |-> n, bytes |-> [null |-> FALSE, bytes |-> b]] :
                      n \in {m \in PidNames : PidWidth(m) = 1},
                      b \in {<<x>> : x \in ScaleBytes}}
            \cup {[name |-> n, bytes |-> [null |-> FALSE, bytes |-> b]] :
                      n \in {m \in PidNames : PidWidth(m) = 2},
                      b \in {<<x, y>> : x \in ScaleBytes, y \in ScaleBytes}}
      \* The Mode 03 responses: a vendor header or none, the echo 43, the
      \* count byte and up to two codes, printed with or without spaces.
      DtcResponses ==
        LET Codes == {<<0, 0>>, <<3, 0>>, <<1, 113>>, <<0, 113>>, <<171, 205>>}
        IN [header : {<<>>, <<"7", "E", "8">>},
            codes : UNION {[1..n -> Codes] : n \in 0..2},
            spaced : BOOLEAN]
  IN
    /\ InitKernel
    /\ InitSampler("none")
    /\ InitSession
    /\ InitReadiness
    /\ InitPredictive(<<>>, <<>>, 70)
    /\ InitHost
    /\ returned = FALSE
    /\ ret = <<>>
    /\ \/ fn = "parseOBDResponse" /\ arg \in ParseInputs
       \/ fn = "decodeDTC" /\ arg \in DtcInputs
       \/ fn = "parseStatus" /\ arg \in StatusInputs
       \/ fn = "parseSignedInt16" /\ arg \in Int16Inputs
       \/ fn = "parseTestResults" /\ arg \in TestInputs
       \/ fn = "parse" /\ arg \in ScaleInputs
       \/ fn = "parseDTCs" /\ arg \in DtcResponses

\* a Mode 03 response as the adapter prints it
DtcResponseText(a) ==
    LET sep == IF a.spaced THEN <<" ">> ELSE <<>>
        CodeText(c) == sep \o Hex2(c[1]) \o sep \o Hex2(c[2])
        codes == [k \in 1..Len(a.codes) |-> CodeText(a.codes[k])]
    IN a.header \o (IF a.header = <<>> THEN <<>> ELSE sep)
         \o <<"4", "3">> \o sep \o Hex2(Len(a.codes))
         \o (IF Len(codes) >= 1 THEN codes[1] ELSE <<>>)
         \o (IF Len(codes) >= 2 THEN codes[2] ELSE <<>>)

\* DiagnosticsApp.parseDTCs(rawResponse), as readCodes calls it
CallParseDTCs ==
    /\ fn = "parseDTCs"
    /\ ~returned
    /\ returned' = TRUE
    /\ ret' = parseDTCs(DtcResponseText(arg))
    /\ UNCHANGED <<fn, arg, monitors, milStatus, dtcCount>>
    /\ UNCHANGED <<kvars, svars, ivars, pvars, hvars>>

DecoderNext ==
    \/ CallParseOBDResponse
    \/ CallDecodeDTC
    \/ CallParseStatus
    \/ CallParseSignedInt16
    \/ CallParseTestResults
    \/ CallPidParse
    \/ CallParseDTCs

DecoderSpec == DecoderInit /\ [][DecoderNext]_vars

\* C17: for a response made of an optional vendor header (absent, or 2 or 3
\* hex characters), the echoed mode and PID and the data bytes D, with or
\* without whitespace, parseOBDResponse(response, echo) returns exactly D.
ParseReturnsData ==
    (fn = "parseOBDResponse" /\ returned) =>
        ret = [null |-> FALSE, bytes |-> arg.data]

\* C18: for a 4-hex-digit code other than 0000 decodeDTC returns the family
\* letter and digit selected by the first nibble (0-3 P0-P3, 4-7 C0-C3,
\* 8-11 B0-B3, 12-15 U0-U3) followed by the other three digits; for 0000
\* it returns no code.
DecodeDTCCorrect ==
    (fn = "decodeDTC" /\ returned) =>
        IF arg = <<"0", "0", "0", "0">>
        THEN ret.null
        ELSE LET n == HexValue(arg[1])
                 families == <<"P", "C", "B", "U">>
                 digits == <<"0", "1", "2", "3">>
             IN /\ ~ret.null
                /\ ret.text = <<families[(n \div 4) + 1], digits[(n % 4) + 1]>>
                                  \o SubSeq(arg, 2, 4)

\* 4102 was decoded to C0102.
DecodeDTCWitness ==
    /\ fn = "decodeDTC" /\ returned
    /\ arg = <<"4", "1", "0", "2">>
    /\ ret.text = <<"C", "0", "1", "0", "2">>

\* C19: parseStatus sets each of the eight non-continuous monitors to
\* supported = (its bit in B is set) and complete = supported and (its bit
\* in C is clear), and each of the three continuous monitors to supported
\* and complete = (its designated bit in C is clear).  The bits are those of
\* Mode 01 PID 01: catalyst 0, heated catalyst 1, evaporative system 2,
\* secondary air 3, A/C refrigerant 4, oxygen sensor 5, oxygen sensor
\* heater 6, EGR 7; misfire 4, fuel system 5, components 6.
ReadinessDecode ==
    LET bit(m) ==
            CASE m = "catalyst" -> 0
              [] m = "heatedCatalyst" -> 1
              [] m = "evapSystem" -> 2
              [] m = "secondaryAir" -> 3
              [] m = "acRefrigerant" -> 4
              [] m = "oxygenSensor" -> 5
              [] m = "oxygenSensorHeater" -> 6
              [] m = "egrSystem" -> 7
              [] m = "misfire" -> 4
              [] m = "fuelSystem" -> 5
              [] m = "components" -> 6
        isSet(x, k) == (x \div (2 ^ k)) % 2 = 1
    IN (fn = "parseStatus" /\ returned) =>
          /\ \A m \in NonContinuous :
                /\ monitors[m].supported = isSet(arg[2], bit(m))
                /\ monitors[m].complete =
                       (isSet(arg[2], bit(m)) /\ ~isSet(arg[3], bit(m)))
          /\ \A m \in Continuous :
                /\ monitors[m].supported
                /\ monitors[m].complete = ~isSet(arg[3], bit(m))

\* C20: for every status byte A, parseStatus sets milStatus to bit 7 of A
\* and dtcCount to A mod 128.
MilAndCount ==
    (fn = "parseStatus" /\ returned) =>
        /\ milStatus = (arg[1] >= 128)
        /\ dtcCount = arg[1] % 128

\* A = 0x83 was decoded to MIL on and three stored codes.
MilAndCountWitness ==
    /\ fn = "parseStatus" /\ returned
    /\ arg[1] = 131
    /\ milStatus
    /\ dtcCount = 3

\* C21: for every decoded test record, percentToLimit is
\* (current - min) / (max - min) * 100 when max - min is not zero (max < min
\* included, without clamping), and 0 when max = min.
PercentToLimitOverRange ==
    (fn = "parseTestResults" /\ returned) =>
        \A k \in 1..Len(ret) :
            LET word(j) ==
                    LET at(i) == IF i <= Len(arg.bytes) THEN arg.bytes[i] ELSE 0
                        u == at(8 * (k - 1) + j) * 256 + at(8 * (k - 1) + j + 1)
                    IN IF u <= 32767 THEN u ELSE u - 65536
                mn == word(3)
                mx == word(5)
                cur == word(7)
                p == ret[k].percentToLimit
            IN IF mx # mn
               THEN p.num * (mx - mn) = (cur - mn) * 100 * p.den
               ELSE p.num = 0

\* C22: for every pair of bytes parseSignedInt16 returns the two's
\* complement 16-bit value of hi * 256 + lo: the value itself up to 32767,
\* the value less 65536 above, always within -32768..32767.
SignedInt16 ==
    (fn = "parseSignedInt16" /\ returned) =>
        LET u == arg[1] * 256 + arg[2]
        IN /\ ret = (IF u <= 32767 THEN u ELSE u - 65536)
           /\ ret \in -32768..32767
           /\ (u - ret) % 65536 = 0

\* 0xFF9C was read as -100.
SignedInt16Witness ==
    /\ fn = "parseSignedInt16" /\ returned
    /\ arg = <<255, 156>>
    /\ ret = -100

\* C23 as stated: the scale functions give engine speed 1798.0 for the
\* bytes 1A F8, coolant 85 for 7D, control module voltage 14.146 for 37 42
\* and timing advance 0.0 for 80.
ScaleExamples ==
    (fn = "parse" /\ returned /\ ~arg.bytes.null) =>
        LET b == arg.bytes.bytes
        IN /\ (arg.name = "RPM" /\ b = <<26, 248>>) => ret.num = 1798 * ret.den
           /\ (arg.name = "COOLANT" /\ b = <<125>>) => ret.num = 85 * ret.den
           /\ (arg.name = "BATTERY" /\ b = <<55, 66>>) =>
                  ret.num * 1000 = 14146 * ret.den
           /\ (arg.name = "TIMING_ADVANCE" /\ b = <<128>>) => ret.num = 0

\* C23 amended: the scale functions give engine speed 1726.0 for the bytes
\* 1A F8, coolant 85 for 7D, control module voltage 14.146 for 37 42 and
\* timing advance 0.0 for 80.
ScaleExamplesFromCode ==
    (fn = "parse" /\ returned /\ ~arg.bytes.null) =>
        LET b == arg.bytes.bytes
        IN /\ (arg.name = "RPM" /\ b = <<26, 248>>) => ret.num = 1726 * ret.den
           /\ (arg.name = "COOLANT" /\ b = <<125>>) => ret.num = 85 * ret.den
           /\ (arg.name = "BATTERY" /\ b = <<55, 66>>) =>
                  ret.num * 1000 = 14146 * ret.den
           /\ (arg.name = "TIMING_ADVANCE" /\ b = <<128>>) => ret.num = 0

\* RPM.parse([0x1A, 0xF8]) has returned 6904 / 4.
ScaleExamplesWitness ==
    /\ fn = "parse" /\ returned
    /\ arg.name = "RPM"
    /\ arg.bytes = [null |-> FALSE, bytes |-> <<26, 248>>]
    /\ ret = [null |-> FALSE, num |-> 6904, den |-> 4]

\* C37: parseTestResults pushes one record per complete 8-byte record of
\* the payload and none for a truncated trailing fragment: n bytes yield
\* floor(n / 8) records.
OneRecordPerEightBytes ==
    (fn = "parseTestResults" /\ returned) =>
        Len(ret) = IF arg.null THEN 0 ELSE Len(arg.bytes) \div 8

\* C31: for a Mode 03 response made of the echo 43, a count byte and a list
\* of two-byte codes, parseDTCs returns, in order, the decoded DTC of every
\* code that is not 0000 and nothing else (letters compared without regard
\* to case); '43 02 03 00 01 71' yields P0300 and P0171.
ParseDTCsDecodes ==
    (fn = "parseDTCs" /\ returned) =>
        LET real == SelectSeq(arg.codes, LAMBDA c : c # <<0, 0>>)
            expected == [k \in 1..Len(real) |->
                            decodeDTC(Hex2(real[k][1]) \o Hex2(real[k][2])).text]
        IN /\ Len(ret) = Len(expected)
           /\ \A k \in 1..Len(ret) : CleanText(ret[k]) = expected[k]

(***************************************************************************)
(* The samplers: TimingApp, EmissionsApp, BatteryApp, EngineApp and        *)
(* DashboardApp (in its category "performance").  One of them runs         *)
(* against window.obd; its requests go through the kernel's                *)
(* queue, which is kept here without a clock: the only time the samplers   *)
(* depend on is whether minCommandDelay has passed since the last success  *)
(* (cooling), and every sampler request has the default timeout of 3000    *)
(* ms, far longer than minCommandDelay.                                    *)
(***************************************************************************)
Apps == {"timing", "emissions", "battery", "engine", "dashboard"}

\* The sendCommand calls of fetchData / fetchVoltage, in program order.
Steps(a) ==
    CASE a = "timing" -> <<"timing", "load">>
      [] a = "emissions" -> <<"stft1", "ltft1", "o2s1", "o2s2", "maf">>
      [] a = "battery" -> <<"battery">>
      [] a = "engine" -> <<"rpm", "speed", "load", "timing", "iat", "maf">>
      [] a = "dashboard" -> <<"rpm", "speed", "coolant", "fuel", "throttle", "battery">>
      [] OTHER -> <<>>

\* Requested outside any try of the fetch function: a failure leaves
\* fetchHardwareData and is caught by update().
Unguarded(a) == IF a = "dashboard" THEN {"rpm", "speed", "coolant"} ELSE {}

\* The expectedMode argument of parseOBDResponse at each call.
ExpectedMode(p) ==
    CASE p = "rpm" -> <<"4", "1", "0", "C">>
      [] p = "speed" -> <<"4", "1", "0", "D">>
      [] p = "load" -> <<"4", "1", "0", "4">>
      [] p = "timing" -> <<"4", "1", "0", "E">>
      [] p = "iat" -> <<"4", "1", "0", "F">>
      [] p = "maf" -> <<"4", "1", "1", "0">>
      [] p = "stft1" -> <<"4", "1", "0", "6">>
      [] p = "ltft1" -> <<"4", "1", "0", "7">>
      [] p = "o2s1" -> <<"4", "1", "1", "4">>
      [] p = "o2s2" -> <<"4", "1", "1", "5">>
      [] p = "battery" -> <<"4", "1", "4", "2">>
      [] p = "coolant" -> <<"4", "1", "0", "5">>
      [] p = "fuel" -> <<"4", "1", "2", "F">>
      [] p = "throttle" -> <<"4", "1", "1", "1">>

Replies(p) ==
      \* What the adapter answers to the request for p: the mode echo and two data
      \* bytes, or "NO DATA".
  LET DataReply ==
          LET m == ExpectedMode(p)
          IN <<m[1], m[2], " ", m[3], m[4], " ", "3", "0", " ", "d", "4">>
  IN
              {DataReply, NoDataText}

AllReplies == UNION {Replies(p) : p \in Params}


\* The part of the state an update cycle and the drain loop work on.
SState ==
    [q |-> obdQueue, buf |-> obdBuffer, run |-> obdProcessing, req |-> request,
     pc |-> step, sup |-> supported, err |-> consecutiveErrors,
     hist |-> historyLength, stale |-> staleWrite, ok |-> succeeded,
     cycles |-> failedCycles, busy |-> isBusy]

SetSState(S) ==
    /\ obdQueue' = S.q
    /\ obdBuffer' = S.buf
    /\ obdProcessing' = S.run
    /\ request' = S.req
    /\ step' = S.pc
    /\ supported' = S.sup
    /\ consecutiveErrors' = S.err
    /\ historyLength' = S.hist
    /\ staleWrite' = S.stale
    /\ succeeded' = S.ok
    /\ failedCycles' = S.cycles
    /\ isBusy' = S.busy

\* the parameter invocation s is fetching
ParamAt(pc, s) == Steps(app)[pc[s]]

\* read only while this.supported says so
Detected(p) ==
      \* Requested whatever this.supported says; DashboardApp keeps no such flags.
  LET Mandatory(a) ==
          CASE a = "engine" -> {"rpm", "speed"}
            [] a = "dashboard" -> {"rpm", "speed", "coolant", "fuel", "throttle", "battery"}
            [] OTHER -> {}
  IN
               p \notin Mandatory(app)

\* The try block of processQueue for the request of invocation s: the buffer
\* is cleared, the bytes are written if a writer or a characteristic is set,
\* and the wait starts.
WriteRequest(S, s) ==
    LET p == ParamAt(S.pc, s)
    IN [S EXCEPT !.buf = <<>>,
                 !.req[s] = IF obdWriter THEN "written" ELSE "unwritten",
                 !.stale = obdWriter /\ Detected(p) /\ ~S.sup[p]]

\* The while loop of processQueue from its test to the next suspension;
\* cool: wait > 0.
DrainRequests(S, cool) ==
    IF S.q = <<>>
    THEN [S EXCEPT !.run = FALSE]
    ELSE LET n == Shift(S.q)
             S1 == [S EXCEPT !.q = n.rest]
         IN IF cool
            THEN [S1 EXCEPT !.req[n.cmd] = "delay"]
            ELSE WriteRequest(S1, n.cmd)

\* window.obd.sendCommand(PIDS.<p>.code) by invocation s for its i-th step.
SendRequest(S, s, i, cool) ==
    LET S1 == [S EXCEPT !.q = Push(@, s), !.req[s] = "queued", !.pc[s] = i]
    IN IF S1.run THEN S1 ELSE DrainRequests([S1 EXCEPT !.run = TRUE], cool)

\* A catch that marks p unsupported and every other parameter supported.
FetchFailedReprobes(S, p) ==
    [S EXCEPT !.sup = [q \in Params |-> q # p \/ ~Detected(p)]]

\* The catch of a fetch in fetchData / fetchVoltage; EngineApp's catch for
\* RPM and SPEED is empty.
FetchFailed(S, p) ==
    [S EXCEPT !.sup[p] = IF Detected(p) THEN FALSE ELSE @]

\* analyze(voltage): with exactly three voltages in the history,
\* this.voltageHistory.slice(0, -3).reduce((a, b) => a + b) is a reduce of
\* an empty array without an initial value, which throws a TypeError.
AnalyzeThrows(hist) == hist = 3

\* update() after fetchData / fetchVoltage returned: render, analysis and
\* the error counter.  value: the voltage BatteryApp got is not null;
\* fetched: the cycle made a fetch.  The invocations under way are numbered
\* in the order in which they started: the ones after s move down by one.
FinishUpdate(S, s, value, fetched) ==
    LET err == IF app = "battery"
               THEN IF value
                    THEN IF AnalyzeThrows(S.hist) THEN S.err + 1 ELSE 0
                    ELSE S.err
               ELSE IF app = "dashboard" THEN S.err ELSE 0
        cycles == IF ~fetched \/ app = "dashboard" THEN S.cycles
                  ELSE IF s \in S.ok THEN 0
                  ELSE Min(maxErrors, S.cycles + 1)
        Up(j) == IF j < s THEN j ELSE j + 1
        Down(j) == IF j > s THEN j - 1 ELSE j
    IN [S EXCEPT !.err = err, !.cycles = cycles,
                 !.busy = IF app = "dashboard" THEN FALSE ELSE @,
                 !.pc = [j \in Slots |-> IF Up(j) \in Slots THEN S.pc[Up(j)] ELSE 0],
                 !.req = [j \in Slots |-> IF Up(j) \in Slots THEN S.req[Up(j)] ELSE "none"],
                 !.q = [k \in 1..Len(S.q) |-> Down(S.q[k])],
                 !.ok = {Down(j) : j \in S.ok \ {s}}]

\* fetchData / fetchVoltage of invocation s from its i-th step on, up to
\* the next await or to the end of update().  haveObd: window.obd is the
\* kernel; otherwise window.obd.sendCommand throws a TypeError in the try.
RECURSIVE FetchFrom(_, _, _, _, _, _, _)
FetchFrom(S, s, i, cool, haveObd, value, fetched) ==
    IF i > Len(Steps(app))
    THEN FinishUpdate(S, s, value, fetched)
    ELSE LET p == Steps(app)[i]
         IN IF Detected(p) /\ ~S.sup[p]
            THEN FetchFrom(S, s, i + 1, cool, haveObd, value, fetched)
            ELSE IF haveObd
                 THEN SendRequest(S, s, i, cool)
                 ELSE IF p \in Unguarded(app)
                      THEN FinishUpdate(S, s, value, TRUE)
                      ELSE FetchFrom(FetchFailed(S, p), s, i + 1, cool, haveObd, value, TRUE)

\* const isConnected = window.obd?.connected || window.isSimulating
IsConnected == (obd = "kernel" /\ obdConnected) \/ obd = "demo"

\* A tick that lets update() run whether or not a connection is
\* established.
TickPassesUnconnected ==
    CASE app = "engine" ->
             isActive /\ consecutiveErrors < maxErrors
      [] app = "dashboard" ->
             dashVisible /\ ~isBusy
      [] OTHER ->
             dashVisible /\ isActive /\ consecutiveErrors < maxErrors

\* tick() lets update() run
TickPasses ==
    CASE app = "engine" ->
             IsConnected /\ isActive /\ consecutiveErrors < maxErrors
      [] app = "dashboard" ->
             dashVisible /\ IsConnected /\ ~isBusy
      [] OTHER ->
             dashVisible /\ IsConnected /\ isActive /\ consecutiveErrors < maxErrors

\* The setInterval callback: tick(), update() and fetchData up to the first
\* await.
SamplerTick ==
  LET FreeSlots == {s \in Slots : step[s] = 0}
  IN
      \* "this.consecutiveErrors++; // Only log once"
  LET LogsDisabledOnce ==
          /\ app \notin {"engine", "dashboard"}
          /\ dashVisible /\ IsConnected /\ isActive
          /\ consecutiveErrors = maxErrors
  IN
    /\ updateInterval
    /\ IF TickPasses
       THEN IF obd = "demo"
            THEN UNCHANGED <<obdQueue, obdBuffer, obdProcessing, request, step,
                             supported, consecutiveErrors, historyLength,
                             staleWrite, succeeded, failedCycles, isBusy>>
            ELSE /\ FreeSlots # {}
                 /\ LET s == CHOOSE x \in FreeSlots : \A y \in FreeSlots : x <= y
                        S == [SState EXCEPT !.busy = (app = "dashboard")]
                    IN SetSState(FetchFrom(S, s, 1, cooling, TRUE, FALSE, FALSE))
       ELSE /\ consecutiveErrors' =
                 IF LogsDisabledOnce THEN consecutiveErrors + 1 ELSE consecutiveErrors
            /\ UNCHANGED <<obdQueue, obdBuffer, obdProcessing, request, step,
                           supported, historyLength, staleWrite, succeeded,
                           failedCycles, isBusy>>
    /\ UNCHANGED <<app, obd, obdConnected, obdWriter, obdClosing, cooling,
                   isActive, updateInterval, dashVisible>>
    /\ UNCHANGED nonSampler

\* The kernel's delay timer for the request of invocation s fires: the
\* delay was what was left of minCommandDelay.
RequestDelayElapsed(s) ==
    /\ request[s] = "delay"
    /\ cooling' = FALSE
    /\ SetSState(WriteRequest(SState, s))
    /\ UNCHANGED <<app, obd, obdConnected, obdWriter, obdClosing, isActive,
                   updateInterval, dashVisible>>
    /\ UNCHANGED nonSampler

\* minCommandDelay has passed since the last success while no request waits
\* for it.
CoolDown ==
    /\ cooling
    /\ \A s \in Slots : request[s] # "delay"
    /\ cooling' = FALSE
    /\ UNCHANGED <<app, isBusy, obd, obdConnected, obdWriter, obdClosing, obdQueue,
                   obdBuffer, obdProcessing, request, step, supported,
                   consecutiveErrors, historyLength, isActive, updateInterval,
                   dashVisible, staleWrite, succeeded, failedCycles>>
    /\ UNCHANGED nonSampler

\* handleIncomingData(data): the adapter's answer to the command on the
\* transport, with its prompt.
IncomingData(raw) ==
    /\ obdWriter
    /\ obdBuffer = <<>>
    /\ \E s \in Slots : request[s] = "written" /\ raw \in Replies(ParamAt(step, s))
    /\ obdBuffer' = raw
    /\ UNCHANGED <<app, isBusy, obd, obdConnected, obdWriter, obdClosing, obdQueue,
                   obdProcessing, cooling, request, step, supported,
                   consecutiveErrors, historyLength, isActive, updateInterval,
                   dashVisible, staleWrite, succeeded, failedCycles>>
    /\ UNCHANGED nonSampler

\* waitForResponse of the request of invocation s finds the prompt: the
\* kernel sets lastCommandTime, resolves and goes on with its queue; then
\* the sampler decodes the text and goes on with its fetches.
FetchResolved(s) ==
    /\ request[s] \in {"written", "unwritten"}
    /\ obdBuffer # <<>>
    /\ cooling' = TRUE
    /\ LET p == ParamAt(step, s)
           bytes == parseOBDResponse(obdBuffer, ExpectedMode(p))
           value == ~ParseIsNull(bytes)
           S1 == DrainRequests([SState EXCEPT !.req[s] = "none", !.stale = FALSE], TRUE)
           S2 == [S1 EXCEPT
                     !.ok = @ \cup {s},
                     !.hist = IF app = "battery" /\ value
                              THEN Min(maxHistoryLength, @ + 1) ELSE @]
       IN SetSState(FetchFrom(S2, s, step[s] + 1, TRUE, obd = "kernel", value, TRUE))
    /\ UNCHANGED <<app, obd, obdConnected, obdWriter, obdClosing, isActive,
                   updateInterval, dashVisible>>
    /\ UNCHANGED nonSampler

\* waitForResponse of the request of invocation s times out, 3000 ms after
\* it began: the kernel rejects and goes on with its queue at once; then the
\* sampler's catch runs and it goes on with its fetches.  In a session the
\* last success is older than the wait, so minCommandDelay has passed.
FetchRejected(s) ==
    /\ request[s] \in {"written", "unwritten"}
    /\ obdBuffer = <<>>
    /\ ~cooling \/ ~(obd = "kernel" /\ obdConnected)
    /\ LET p == ParamAt(step, s)
           S1 == DrainRequests([SState EXCEPT !.req[s] = "none", !.stale = FALSE], cooling)
       IN SetSState(IF p \in Unguarded(app)
                    THEN FinishUpdate(S1, s, FALSE, TRUE)
                    ELSE FetchFrom(FetchFailed(S1, p), s, step[s] + 1, cooling,
                                   obd = "kernel", FALSE, TRUE))
    /\ UNCHANGED <<app, obd, obdConnected, obdWriter, obdClosing, cooling,
                   isActive, updateInterval, dashVisible>>
    /\ UNCHANGED nonSampler

\* The host connects the kernel and publishes it as window.obd; boot() then
\* switches to the dashboard tab.
BootConnect ==
    /\ obd = "null"
    /\ ~obdClosing
    /\ obd' = "kernel"
    /\ obdConnected' = TRUE
    /\ obdWriter' = TRUE
    /\ dashVisible' = TRUE
    /\ UNCHANGED <<app, isBusy, obdClosing, obdQueue, obdBuffer, obdProcessing, cooling,
                   request, step, supported, consecutiveErrors, historyLength,
                   isActive, updateInterval, staleWrite, succeeded, failedCycles>>
    /\ UNCHANGED nonSampler

\* System.boot() in demo mode.
BootDemo ==
    /\ obd = "null"
    /\ ~obdClosing
    /\ obd' = "demo"
    /\ dashVisible' = TRUE
    /\ UNCHANGED <<app, isBusy, obdConnected, obdWriter, obdClosing, obdQueue,
                   obdBuffer, obdProcessing, cooling, request, step, supported,
                   consecutiveErrors, historyLength, isActive, updateInterval,
                   staleWrite, succeeded, failedCycles>>
    /\ UNCHANGED nonSampler

\* window.showTab(viewId, btn); visible: viewId is "dash".  The tab is read
\* by tick() alone, so it is followed while the sampler's timer is set.
ShowTab(visible) ==
    /\ updateInterval
    /\ dashVisible' = visible
    /\ UNCHANGED <<app, isBusy, obd, obdConnected, obdWriter, obdClosing, obdQueue,
                   obdBuffer, obdProcessing, cooling, request, step, supported,
                   consecutiveErrors, historyLength, isActive, updateInterval,
                   staleWrite, succeeded, failedCycles>>
    /\ UNCHANGED nonSampler

\* activate() / deactivate(), called while the sampler's timer is set;
\* DashboardApp has neither.
SetActive(active) ==
    /\ updateInterval
    /\ app # "dashboard"
    /\ isActive' = active
    /\ UNCHANGED <<app, isBusy, obd, obdConnected, obdWriter, obdClosing, obdQueue,
                   obdBuffer, obdProcessing, cooling, request, step, supported,
                   consecutiveErrors, historyLength, updateInterval,
                   dashVisible, staleWrite, succeeded, failedCycles>>
    /\ UNCHANGED nonSampler

\* System.shutdown() up to its await: shutdown() of the sampler and of the
\* plugins (the predictive module clears its timer, BatteryApp and
\* EmissionsApp empty their histories), then
\* window.obd.disconnect() up to its first await (the queue is replaced by
\* an empty one).  In demo mode there is nothing to disconnect and
\* window.obd is set to null at once.
Shutdown ==
    /\ obd # "null"
    /\ ~obdClosing
    /\ updateInterval' = FALSE
    /\ isActive' = FALSE
    /\ consecutiveErrors' = 0
    /\ historyLength' = 0
    /\ failedCycles' = 0
    /\ IF obd = "kernel"
       THEN /\ obdConnected' = FALSE
            /\ obdQueue' = <<>>
            /\ obdProcessing' = FALSE
            /\ request' = [s \in Slots |->
                              IF request[s] = "queued" THEN "dropped" ELSE request[s]]
            /\ obdClosing' = TRUE
            /\ obd' = obd
       ELSE /\ obd' = "null"
            /\ UNCHANGED <<obdConnected, obdQueue, obdProcessing, request,
                           obdClosing>>
    /\ UNCHANGED <<app, isBusy, obdWriter, obdBuffer, cooling, step, supported,
                   dashVisible, staleWrite, succeeded>>
    /\ dataCollectionInterval' = FALSE
    /\ voltageHistory' = <<>>
    /\ trimHistory' = <<>>
    /\ UNCHANGED <<snapshots, snapshotsSet, loadPending, storedSnapshots,
                   storedPredictions, predictions, isAnalyzing, collected,
                   analyzed, runOutcome, testResults, coolantTemp>>
    /\ isRecording' = FALSE
    /\ UNCHANGED <<loaded, activeApps, pluginActive, isScanning, awaited, recordedData,
                   captureLoops>>
    /\ UNCHANGED <<kvars, ivars, dvars>>

\* System.shutdown() after window.obd.disconnect() returned: the kernel's
\* writer and characteristic are null, window.obd = null.
ShutdownFinish ==
    /\ obdClosing
    /\ obdClosing' = FALSE
    /\ obdWriter' = FALSE
    /\ obd' = "null"
    /\ UNCHANGED <<app, isBusy, obdConnected, obdQueue, obdBuffer, obdProcessing,
                   cooling, request, step, supported, consecutiveErrors,
                   historyLength, isActive, updateInterval, dashVisible,
                   staleWrite, succeeded, failedCycles>>
    /\ UNCHANGED nonSampler

SamplerInit ==
    /\ InitKernel
    /\ \E a \in Apps : InitSampler(a)
    /\ InitSession
    /\ InitDecoder
    /\ InitPredictive(<<>>, <<>>, 70)
    /\ InitHost

SamplerNext ==
    \/ SamplerTick
    \/ \E s \in Slots : RequestDelayElapsed(s)
    \/ CoolDown
    \/ \E raw \in AllReplies : IncomingData(raw)
    \/ \E s \in Slots : FetchResolved(s)
    \/ \E s \in Slots : FetchRejected(s)
    \/ BootConnect
    \/ BootDemo
    \/ \E visible \in BOOLEAN : ShowTab(visible)
    \/ \E active \in BOOLEAN : SetActive(active)
    \/ Shutdown
    \/ ShutdownFinish

SamplerSpec == SamplerInit /\ [][SamplerNext]_vars

(***************************************************************************)
(* Claims about the samplers, checked under SamplerSpec.                   *)
(***************************************************************************)

\* the update cycles under way; they hold the slots 1..NumActive
NumActive == Cardinality({s \in Slots : step[s] # 0})

\* C8: circuit breaker: once maxErrors consecutive update cycles have
\* completed with all their fetches failed, and until a reset, no tick
\* writes a command to the transport: a step that starts an update cycle
\* does not leave that cycle's command written.
CircuitBreaker ==
    [][(failedCycles >= maxErrors /\ NumActive' > NumActive)
          => request'[NumActive + 1] # "written"]_vars

\* C9: feature-detection monotonicity: no command is written to the
\* transport for a parameter the sampler (TimingApp, EmissionsApp) has
\* already marked unsupported, for any interleaving of its ticks and command
\* completions.
FeatureDetectionMonotonic ==
    app \in {"timing", "emissions"} => ~staleWrite

\* C10: when the adapter answers a read of a feature-detected parameter
\* with NO DATA, the step in which the sampler takes that answer marks the
\* parameter unsupported and does not raise consecutiveErrors.
NoDataDisables ==
    [][LET TakesNoData(s) ==
               /\ obd = "kernel" /\ obdConnected
               /\ request[s] = "written"
               /\ obdBuffer = NoDataText
               /\ ~cooling /\ cooling'
       IN \A s \in Slots :
             (TakesNoData(s) /\ Detected(ParamAt(step, s))) =>
                 /\ ~supported'[ParamAt(step, s)]
                 /\ consecutiveErrors' <= consecutiveErrors]_vars

\* C11: a timeout of a parameter read is transient: the step in which the
\* sampler (TimingApp, EmissionsApp, BatteryApp) takes the timeout of its
\* only outstanding request raises consecutiveErrors by one and leaves the
\* parameter's supported flag true.
TimeoutIsTransient ==
    [][LET TakesTimeout(s) ==
               /\ obd = "kernel" /\ obdConnected
               /\ request[s] = "written"
               /\ obdBuffer = <<>>
               /\ \A t \in Slots \ {s} : request[t] \notin {"written", "unwritten", "delay"}
               /\ <<request'[s], step'[s]>> # <<request[s], step[s]>>
       IN \A s \in Slots :
             (app \in {"timing", "emissions", "battery"} /\ TakesTimeout(s)) =>
                 /\ supported'[ParamAt(step, s)]
                 /\ consecutiveErrors' = consecutiveErrors + 1]_vars

\* C12: at most one update cycle of a sampler is under way at any time: a
\* tick that fires while an earlier update still awaits a result starts
\* nothing.
OneUpdateAtATime ==
    NumActive <= 1

\* the sampler's view / feature is active
ViewActive ==
    CASE app = "engine" -> isActive
      [] app = "dashboard" -> dashVisible
      [] OTHER -> dashVisible /\ isActive

\* C13: a tick starts an update cycle that submits a command only if, at
\* that tick, the sampler's view / feature is active, a connection is
\* established and the sampler is not disabled; a tick at which one of the
\* three is false submits nothing.
TickGuard ==
    [][LET \* the sampler has reached maxErrors; DashboardApp keeps no error
           \* counter
           ModuleDisabled == app # "dashboard" /\ consecutiveErrors >= maxErrors
       IN NumActive' > NumActive =>
             /\ ViewActive
             /\ IsConnected
             /\ ~ModuleDisabled]_vars

\* A sampler of each kind has a cycle under way whose command a tick
\* submitted and the kernel wrote.
TickGuardWitness ==
    /\ NumActive >= 1
    /\ request[1] = "written"
    /\ obd = "kernel" /\ obdConnected
    /\ ViewActive

\* C28: a parameter's supported flag is monotonic: once a sampler has
\* cleared it, no step of that sampler (tick, update, fetch, activate,
\* deactivate), nor of the host, sets it back to true.
SupportedIsMonotonic ==
    [][\A p \in Params : ~supported[p] => ~supported'[p]]_vars

\* Two parameters are marked unsupported in a session that goes on.
SupportedIsMonotonicWitness ==
    /\ obd = "kernel" /\ obdConnected
    /\ Cardinality({p \in Params : ~supported[p]}) >= 2
    /\ NumActive >= 1

\* C29: on a full reconnect (a new connection after a shutdown) the
\* sampler's parameter state is reset: every supported flag is true again
\* and consecutiveErrors is 0.
ReconnectResets ==
    [][(obd = "null" /\ obd' # "null") =>
          /\ \A p \in Params : supported'[p]
          /\ consecutiveErrors' = 0]_vars

\* The samplers with their timer: setInterval calls tick() again and again
\* for as long as the timer is set.
SamplerFairSpec == SamplerSpec /\ WF_vars(SamplerTick)

\* C33: after System.shutdown followed by a successful System.boot, sampler
\* polling resumes: once a sampler has had a command with the kernel, then
\* after window.obd has been null (a shutdown), whenever the session is
\* connected and the dashboard visible the sampler eventually has a command
\* with the kernel again (or the session or the visibility ends first).
PollingResumes ==
    LET Polling == \E s \in Slots : request[s] \in {"queued", "delay", "written"}
        Up == obd = "kernel" /\ obdConnected /\ dashVisible
    IN [](Polling => [](obd = "null" => [](Up => <>(Polling \/ ~Up))))

\* C35: a shutdown or disconnect while an update is in progress marks no
\* parameter unsupported: no step taken while the session is down changes a
\* supported flag.
ShutdownKeepsSupported ==
    [][~IsConnected => supported' = supported]_vars

\* C36: BatteryApp counts an error only when the voltage fetch fails: a step
\* that raises consecutiveErrors is one in which the request timed out or
\* its answer holds no voltage, whatever the length of voltageHistory.
ErrorsCountFailedFetches ==
    [][(app = "battery" /\ consecutiveErrors' > consecutiveErrors) =>
          \/ obdBuffer = <<>>
          \/ ParseIsNull(parseOBDResponse(obdBuffer, ExpectedMode("battery")))]_vars

(***************************************************************************)
(* The predictive module.  Voltages are in mV, catalyst ratios in          *)
(* thousandths and fuel trims in 1/128 %; the quotients the script         *)
(* computes in floating point are kept exact.                              *)
(***************************************************************************)
maxSnapshots == 500

\* the length of the series the analyses are applied to
MaxSeries == 5

\* this.thresholds, in these units
thresholds ==
    [battery |-> [criticalLow |-> 12000, warningLow |-> 12400,
                  criticalHigh |-> 15000, warningHigh |-> 14800],
     catalyst |-> [warningRatio |-> 400, criticalRatio |-> 450],
     fuelTrim |-> [warningOffset |-> 10 * 128, criticalOffset |-> 20 * 128]]

\* Math.abs
Abs(x) == IF x < 0 THEN 0 - x ELSE x

\* reduce((sum, d) => sum + d, 0)
RECURSIVE Sum(_)
Sum(values) == IF values = <<>> THEN 0 ELSE Head(values) + Sum(Tail(values))

\* this.snapshots.filter(s => s.data[key] !== undefined).map(s => s.data[key])
Series(snaps, key) ==
    LET kept == SelectSeq(snaps, LAMBDA sn : key \in DOMAIN sn.data)
    IN [i \in 1..Len(kept) |-> kept[i].data[key]]

\* calculateTrend(data).slope, with x the index from 0
calculateTrend(data) ==
    IF Len(data) < 2 THEN Quotient(0, 1)
    ELSE LET n == Len(data)
             sumX == Sum([i \in 1..n |-> i - 1])
             sumY == Sum(data)
             sumXY == Sum([i \in 1..n |-> (i - 1) * data[i]])
             sumXX == Sum([i \in 1..n |-> (i - 1) * (i - 1)])
         IN Quotient(n * sumXY - sumX * sumY, n * sumXX - sumX * sumX)

\* A battery diagnosis that looks at the trend before the warning threshold.
BatterySeverityTrendFirst(currentValue, slope) ==
    IF currentValue < thresholds.battery.criticalLow THEN "critical"
    ELSE IF slope.num < (0 - 10) * slope.den THEN "info"
    ELSE IF currentValue < thresholds.battery.warningLow THEN "warning"
    ELSE "good"

\* analyzeBatteryTrend: the branch taken; slope < -0.01 is in V per step
BatterySeverity(currentValue, slope) ==
    IF currentValue < thresholds.battery.criticalLow THEN "critical"
    ELSE IF currentValue < thresholds.battery.warningLow THEN "warning"
    ELSE IF slope.num < (0 - 10) * slope.den THEN "info"
    ELSE "good"

\* analyzeBatteryTrend: what it pushes onto this.predictions
analyzeBatteryTrend(snaps) ==
    LET batteryData == Series(snaps, "battery")
        trend == calculateTrend(batteryData)
        currentValue == batteryData[Len(batteryData)]
        severity == BatterySeverity(currentValue, trend)
        farFromWarning ==
            Abs(currentValue - thresholds.battery.warningLow) * trend.den
                > 30 * Abs(trend.num)
    IN IF Len(batteryData) < 5 THEN <<>>
       ELSE <<[component |-> "Battery",
               severity |-> severity,
               timeframe |->
                   CASE severity = "critical" -> "Now"
                     [] severity = "warning" -> "1-2 weeks"
                     [] severity = "info" ->
                            IF farFromWarning THEN "2-3 months" ELSE "1 month"
                     [] severity = "good" -> "12+ months",
               currentValue |-> currentValue,
               trend |-> IF trend.num > 0 THEN "improving"
                         ELSE IF trend.num < (0 - 5) * trend.den THEN "declining"
                         ELSE "stable"]>>

\* analyzeCatalystTrend: the branch taken
CatalystSeverity(currentValue, slope) ==
    IF currentValue >= thresholds.catalyst.criticalRatio THEN "critical"
    ELSE IF currentValue >= thresholds.catalyst.warningRatio THEN "warning"
    ELSE IF slope.num > 10 * slope.den THEN "info"
    ELSE "good"

\* analyzeCatalystTrend: what it pushes onto this.predictions
analyzeCatalystTrend(snaps) ==
    LET catalystData == Series(snaps, "catalystRatio")
        trend == calculateTrend(catalystData)
        currentValue == catalystData[Len(catalystData)]
        severity == CatalystSeverity(currentValue, trend)
    IN IF Len(catalystData) < 3 THEN <<>>
       ELSE <<[component |-> "Catalytic Converter",
               severity |-> severity,
               timeframe |->
                   CASE severity = "critical" -> "1-2 months"
                     [] severity = "warning" -> "3-6 months"
                     [] severity = "info" -> "12+ months"
                     [] severity = "good" -> "24+ months",
               currentValue |-> currentValue,
               trend |-> IF trend.num > 5 * trend.den
                         THEN "degrading" ELSE "stable"]>>

\* analyzeFuelTrimTrend: the branch taken; avgValue is total / n
FuelTrimSeverity(currentValue, total, n) ==
    IF currentValue > thresholds.fuelTrim.criticalOffset THEN "warning"
    ELSE IF total > thresholds.fuelTrim.warningOffset * n THEN "info"
    ELSE "good"

\* analyzeFuelTrimTrend: what it pushes onto this.predictions
analyzeFuelTrimTrend(snaps) ==
    LET signed == Series(snaps, "fuelTrim")
        trimData == [i \in 1..Len(signed) |-> Abs(signed[i])]
        currentValue == trimData[Len(trimData)]
        total == Sum(trimData)
        severity == FuelTrimSeverity(currentValue, total, Len(trimData))
    IN IF Len(trimData) < 5 THEN <<>>
       ELSE <<[component |-> "Fuel System",
               severity |-> severity,
               timeframe |->
                   CASE severity = "warning" -> "1-2 weeks"
                     [] severity = "info" -> "1-2 months"
                     [] severity = "good" -> "12+ months",
               currentValue |-> currentValue,
               trend |-> IF total > 8 * 128 * Len(trimData)
                         THEN "compensating" ELSE "stable"]>>

\* runAnalysis: this.predictions after the three analyses
Analysis(snaps) ==
    analyzeBatteryTrend(snaps) \o analyzeCatalystTrend(snaps)
        \o analyzeFuelTrimTrend(snaps)

\* loadStoredData() resumes with what window.storage.get returned.
LoadStoredData ==
    /\ loadPending
    /\ loadPending' = FALSE
    /\ snapshots' = storedSnapshots
    /\ snapshotsSet' = TRUE
    /\ predictions' = IF storedPredictions # <<>> THEN storedPredictions
                      ELSE predictions
    /\ UNCHANGED <<storedSnapshots, storedPredictions, isAnalyzing,
                   dataCollectionInterval, collected, analyzed, runOutcome,
                   voltageHistory, trimHistory, testResults, coolantTemp>>
    /\ UNCHANGED <<kvars, svars, ivars, dvars, hvars>>

\* loadStoredData(): window.storage.get rejects and the catch starts fresh.
LoadFails ==
    /\ loadPending
    /\ loadPending' = FALSE
    /\ snapshots' = <<>>
    /\ snapshotsSet' = TRUE
    /\ predictions' = <<>>
    /\ UNCHANGED <<storedSnapshots, storedPredictions, isAnalyzing,
                   dataCollectionInterval, collected, analyzed, runOutcome,
                   voltageHistory, trimHistory, testResults, coolantTemp>>
    /\ UNCHANGED <<kvars, svars, ivars, dvars, hvars>>

\* runAnalysis() up to its await of window.storage.set; while
\* this.snapshots is undefined it throws at once.
RunAnalysis ==
    /\ snapshotsSet
    /\ ~isAnalyzing
    /\ analyzed' = snapshots
    /\ IF Len(snapshots) < 5
       THEN /\ runOutcome' = "insufficient"
            /\ UNCHANGED <<isAnalyzing, predictions>>
       ELSE /\ isAnalyzing' = TRUE
            /\ predictions' = Analysis(snapshots)
            /\ runOutcome' = "running"
    /\ UNCHANGED <<snapshots, snapshotsSet, loadPending, storedSnapshots,
                   storedPredictions, dataCollectionInterval, collected,
                   voltageHistory, trimHistory, testResults, coolantTemp>>
    /\ UNCHANGED <<kvars, svars, ivars, dvars, hvars>>

\* runAnalysis() after its awaits of window.storage.set, which it catches
AnalysisStored ==
    /\ isAnalyzing
    /\ isAnalyzing' = FALSE
    /\ runOutcome' = "complete"
    /\ UNCHANGED <<snapshots, snapshotsSet, loadPending, storedSnapshots,
                   storedPredictions, predictions, dataCollectionInterval,
                   collected, analyzed, voltageHistory, trimHistory,
                   testResults, coolantTemp>>
    /\ UNCHANGED <<kvars, svars, ivars, dvars, hvars>>

\* a stored history in which every snapshot holds the one value data[key]
SnapshotsOf(key, values) ==
    [i \in 1..Len(values) |-> [timestamp |-> i, data |-> (key :> values[i])]]

AnalysisInit ==
  LET AnalysisInputs ==
        LET Volts == {11900, 12200, 12300, 12400, 12500, 12600}
            \* a charging system that regulates, or overcharges
            Charging == {12500, 14900, 15100}
            Ratios == {300, 380, 400, 450}
            \* (byte - 128) * 100 for the bytes 102, 115, 128, 141 and 154
            Trims == {0 - 2600, 0 - 1300, 0, 1300, 2600}
            SeriesOver(values) == UNION {[1..n -> values] : n \in 0..MaxSeries}
        IN
          {SnapshotsOf("battery", v) : v \in SeriesOver(Volts)}
            \cup {SnapshotsOf("battery", v) : v \in [1..MaxSeries -> Charging]}
            \cup {SnapshotsOf("catalystRatio", v) : v \in SeriesOver(Ratios)}
            \cup {SnapshotsOf("fuelTrim", v) : v \in SeriesOver(Trims)}
  IN
    /\ InitKernel
    /\ InitSampler("none")
    /\ InitSession
    /\ InitDecoder
    /\ \E sn \in AnalysisInputs : InitPredictive(sn, <<>>, 70)
    /\ InitHost

AnalysisNext ==
    \/ LoadStoredData
    \/ LoadFails
    \/ RunAnalysis
    \/ AnalysisStored

AnalysisSpec == AnalysisInit /\ [][AnalysisNext]_vars

\* C24: for every analyzed metric (battery, catalyst, fuel trim) the
\* severity of the prediction follows the priority: the latest value breaches
\* the metric's critical threshold -> critical; else it breaches the warning
\* threshold -> warning; else a significant slope in the degrading
\* direction -> info; else good.
SeverityByPriority ==
    runOutcome \in {"running", "complete"} =>
        \A k \in 1..Len(predictions) :
            LET p == predictions[k]
                t == thresholds
                battery == Series(analyzed, "battery")
                catalyst == Series(analyzed, "catalystRatio")
                trim == Series(analyzed, "fuelTrim")
                last(v) == v[Len(v)]
            IN /\ p.component = "Battery" =>
                     p.severity =
                         (IF last(battery) < t.battery.criticalLow THEN "critical"
                          ELSE IF last(battery) < t.battery.warningLow THEN "warning"
                          ELSE IF calculateTrend(battery).num
                                      < (0 - 10) * calculateTrend(battery).den
                               THEN "info"
                          ELSE "good")
               /\ p.component = "Catalytic Converter" =>
                     p.severity =
                         (IF last(catalyst) >= t.catalyst.criticalRatio THEN "critical"
                          ELSE IF last(catalyst) >= t.catalyst.warningRatio THEN "warning"
                          ELSE IF calculateTrend(catalyst).num
                                      > 10 * calculateTrend(catalyst).den
                               THEN "info"
                          ELSE "good")
               /\ p.component = "Fuel System" =>
                     IF Abs(last(trim)) > t.fuelTrim.criticalOffset
                     THEN p.severity = "critical"
                     ELSE IF Abs(last(trim)) > t.fuelTrim.warningOffset
                          THEN p.severity = "warning"
                          ELSE p.severity \in {"info", "good"}

\* C26 as stated: when the history consists of five declining
\* control-module-voltage snapshots whose last value is below 12.4 V,
\* runAnalysis yields exactly one Battery prediction, with severity warning
\* and a timeframe of weeks.
VoltageWarningEndToEnd ==
    LET v == Series(analyzed, "battery")
        b == SelectSeq(predictions, LAMBDA p : p.component = "Battery")
    IN (/\ runOutcome \in {"running", "complete"}
        /\ Len(analyzed) = 5
        /\ Len(v) = 5
        /\ \A i \in 1..4 : v[i + 1] < v[i]
        /\ v[5] < 12400) =>
           /\ Len(b) = 1
           /\ b[1].severity = "warning"
           /\ b[1].timeframe = "1-2 weeks"

\* C26 amended: when the history consists of five declining
\* control-module-voltage snapshots whose last value is below 12.4 V and not
\* below 12.0 V, runAnalysis yields exactly one Battery prediction, with
\* severity warning and a timeframe of weeks.
VoltageWarningAboveCritical ==
    LET v == Series(analyzed, "battery")
        b == SelectSeq(predictions, LAMBDA p : p.component = "Battery")
    IN (/\ runOutcome \in {"running", "complete"}
        /\ Len(analyzed) = 5
        /\ Len(v) = 5
        /\ \A i \in 1..4 : v[i + 1] < v[i]
        /\ v[5] < 12400
        /\ v[5] >= 12000) =>
           /\ Len(b) = 1
           /\ b[1].severity = "warning"
           /\ b[1].timeframe = "1-2 weeks"

\* C38: a Battery prediction has severity good only when the current
\* voltage lies in the normal band [warningLow, warningHigh] = [12.4 V,
\* 14.8 V]: a value beyond warningHigh or criticalHigh is never good.
GoodOnlyInNormalBand ==
    runOutcome \in {"running", "complete"} =>
        \A k \in 1..Len(predictions) :
            (predictions[k].component = "Battery" /\ predictions[k].severity = "good") =>
                LET v == Series(analyzed, "battery")
                IN /\ v[Len(v)] >= thresholds.battery.warningLow
                   /\ v[Len(v)] <= thresholds.battery.warningHigh

\* The analysis of 12.6, 12.5, 12.4, 12.3, 12.2 V has completed with one
\* prediction, a warning.
VoltageWarningWitness ==
    /\ runOutcome = "complete"
    /\ Series(analyzed, "battery") = <<12600, 12500, 12400, 12300, 12200>>
    /\ Len(predictions) = 1
    /\ predictions[1].component = "Battery"
    /\ predictions[1].severity = "warning"
    /\ predictions[1].trend = "declining"

(***************************************************************************)
(* The predictive module at work: the collection timer, the plugins it     *)
(* reads and the user's requests.                                          *)
(***************************************************************************)
\* the snapshots collected in a session of the model
MaxCollect == 2

\* the readings a plugin's history holds in the model
MaxReadings == 1

\* push, then shift() beyond cap
PushCapped(history, value, cap) ==
    LET pushed == Append(history, value)
    IN IF Len(pushed) > cap THEN Tail(pushed) ELSE pushed

\* EmissionsApp.maxHistoryLength
maxTrimHistoryLength == 10

\* A history cut to its oldest entries.
KeepOldest(snaps) ==
    IF Len(snaps) > maxSnapshots THEN SubSeq(snaps, 1, maxSnapshots) ELSE snaps

\* collectSnapshot: this.snapshots.slice(-this.maxSnapshots) beyond maxSnapshots
KeepLatest(snaps) ==
    IF Len(snaps) > maxSnapshots
    THEN SubSeq(snaps, Len(snaps) - maxSnapshots + 1, Len(snaps))
    ELSE snaps

\* A read of the latest entry that takes it out of the array (pop()).
ReadByPop(history) ==
    [value |-> history[Len(history)], left |-> SubSeq(history, 1, Len(history) - 1)]

\* history[history.length - 1]: the value read, and the array as it is left
ReadLatest(history) ==
    [value |-> history[Len(history)], left |-> history]

\* collectSnapshot: snapshot.data, read from the plugins
SnapshotData ==
      \* testResults.find(t => t.testID === '01')
  LET CatalystTests(results) == SelectSeq(results, LAMBDA t : t.testID = <<"0", "1">>)
  IN
    LET none == [k \in {} |-> 0]
        battery == IF voltageHistory # <<>>
                   THEN "battery" :> ReadLatest(voltageHistory).value ELSE none
        fuelTrim == IF trimHistory # <<>>
                    THEN "fuelTrim" :> ReadLatest(trimHistory).value ELSE none
        catalyst == IF CatalystTests(testResults) # <<>>
                    THEN "catalystRatio" :> CatalystTests(testResults)[1].value
                    ELSE none
        coolant == IF coolantTemp # 0 THEN "coolantTemp" :> coolantTemp ELSE none
    IN battery @@ fuelTrim @@ catalyst @@ coolant

\* collectSnapshot(), called by the timer; the storage has answered
\* loadStoredData() by the first call, collectionRate after init().
CollectSnapshot ==
    /\ dataCollectionInterval
    /\ ~loadPending
    /\ IsConnected
    /\ collected < Len(storedSnapshots) + MaxCollect
    /\ IF DOMAIN SnapshotData # {}
       THEN /\ snapshots' = KeepLatest(Append(snapshots,
                                 [timestamp |-> collected + 1, data |-> SnapshotData]))
            /\ collected' = collected + 1
       ELSE UNCHANGED <<snapshots, collected>>
    /\ voltageHistory' = IF voltageHistory # <<>>
                         THEN ReadLatest(voltageHistory).left ELSE voltageHistory
    /\ trimHistory' = IF trimHistory # <<>>
                      THEN ReadLatest(trimHistory).left ELSE trimHistory
    /\ UNCHANGED <<snapshotsSet, loadPending, storedSnapshots, storedPredictions,
                   predictions, isAnalyzing, dataCollectionInterval, analyzed,
                   runOutcome, testResults, coolantTemp>>
    /\ UNCHANGED <<kvars, svars, ivars, dvars, hvars>>

\* clearHistory(), confirmed by the user, up to its await
ClearHistory ==
    /\ snapshots' = <<>>
    /\ snapshotsSet' = TRUE
    /\ predictions' = <<>>
    /\ UNCHANGED <<loadPending, storedSnapshots, storedPredictions, isAnalyzing,
                   dataCollectionInterval, collected, analyzed, runOutcome,
                   voltageHistory, trimHistory, testResults, coolantTemp>>
    /\ UNCHANGED <<kvars, svars, ivars, dvars, hvars>>

\* BatteryApp.fetchVoltage got the voltage v from the vehicle.
BatteryReads(v) ==
    /\ obd = "kernel" /\ obdConnected
    /\ Len(voltageHistory) < MaxReadings
    /\ voltageHistory' = PushCapped(voltageHistory, v, maxHistoryLength)
    /\ UNCHANGED <<snapshots, snapshotsSet, loadPending, storedSnapshots,
                   storedPredictions, predictions, isAnalyzing,
                   dataCollectionInterval, collected, analyzed, runOutcome,
                   trimHistory, testResults, coolantTemp>>
    /\ UNCHANGED <<kvars, svars, ivars, dvars, hvars>>

\* EmissionsApp.analyzeEmissions got the short-term fuel trim t.
EmissionsReads(t) ==
    /\ obd = "kernel" /\ obdConnected
    /\ Len(trimHistory) < MaxReadings
    /\ trimHistory' = PushCapped(trimHistory, t, maxTrimHistoryLength)
    /\ UNCHANGED <<snapshots, snapshotsSet, loadPending, storedSnapshots,
                   storedPredictions, predictions, isAnalyzing,
                   dataCollectionInterval, collected, analyzed, runOutcome,
                   voltageHistory, testResults, coolantTemp>>
    /\ UNCHANGED <<kvars, svars, ivars, dvars, hvars>>

\* MonitoringApp.readTestResults() up to its await of sendCommand
ScanBegins ==
    /\ obd = "kernel" /\ obdConnected
    /\ testResults # <<>>
    /\ testResults' = <<>>
    /\ UNCHANGED <<snapshots, snapshotsSet, loadPending, storedSnapshots,
                   storedPredictions, predictions, isAnalyzing,
                   dataCollectionInterval, collected, analyzed, runOutcome,
                   voltageHistory, trimHistory, coolantTemp>>
    /\ UNCHANGED <<kvars, svars, ivars, dvars, hvars>>

\* MonitoringApp.readTestResults(): the answer to 0600 is parsed.
ScanParsed(bytes) ==
    /\ obd = "kernel" /\ obdConnected
    /\ testResults = <<>>
    /\ testResults' = parseTestResults(bytes)
    /\ UNCHANGED <<snapshots, snapshotsSet, loadPending, storedSnapshots,
                   storedPredictions, predictions, isAnalyzing,
                   dataCollectionInterval, collected, analyzed, runOutcome,
                   voltageHistory, trimHistory, coolantTemp>>
    /\ UNCHANGED <<kvars, svars, ivars, dvars, hvars>>

FeedVolts == {12200}

FeedTrims == {0 - 2600}

\* The answers to 0600: a catalyst test with the value 0.420, and an oxygen
\* sensor test alone.
ScanInputs ==
    {[null |-> FALSE, bytes |-> <<1, 1, 0, 0, 1, 244, 1, 164>>],
     [null |-> FALSE, bytes |-> <<5, 1, 0, 0, 0, 100, 0, 50>>]}

PredictiveInit ==
      \* The histories the storage holds: none, three catalyst snapshots, four
      \* battery snapshots, and a history one snapshot short of maxSnapshots.
  LET StoredHistories ==
            \* a stored history of n snapshots that hold the coolant temperature alone
        LET CoolantHistory(n) == SnapshotsOf("coolantTemp", [i \in 1..n |-> 70])
        IN
          {<<>>,
           SnapshotsOf("catalystRatio", <<300, 380, 420>>),
           SnapshotsOf("battery", <<12600, 12500, 12400, 12300>>),
           CoolantHistory(maxSnapshots - 1)}
  IN
    /\ InitKernel
    /\ InitSampler("none")
    /\ InitSession
    /\ InitDecoder
    /\ \E sn \in StoredHistories, ct \in {0, 70} : InitPredictive(sn, <<>>, ct)
    /\ InitHost

PredictiveNext ==
    \/ LoadStoredData
    \/ LoadFails
    \/ CollectSnapshot
    \/ RunAnalysis
    \/ AnalysisStored
    \/ ClearHistory
    \/ \E v \in FeedVolts : BatteryReads(v)
    \/ \E t \in FeedTrims : EmissionsReads(t)
    \/ ScanBegins
    \/ \E b \in ScanInputs : ScanParsed(b)
    \/ BootConnect
    \/ BootDemo
    \/ Shutdown
    \/ ShutdownFinish

PredictiveSpec == PredictiveInit /\ [][PredictiveNext]_vars

\* C25: after any completed runAnalysis, predictions holds exactly one
\* prediction for each metric whose filtered history meets its minimum
\* sample count (battery 5, catalyst 3, fuel trim 5) and none for a metric
\* below it; never two for the same component.
OnePredictionPerMetric ==
    LET count(component) ==
            Len(SelectSeq(predictions, LAMBDA p : p.component = component))
        due(key, minimum) ==
            IF Len(Series(analyzed, key)) >= minimum THEN 1 ELSE 0
    IN runOutcome \in {"insufficient", "complete"} =>
          /\ count("Battery") = due("battery", 5)
          /\ count("Catalytic Converter") = due("catalystRatio", 3)
          /\ count("Fuel System") = due("fuelTrim", 5)

\* C27: after any sequence of collectSnapshot calls the history holds at
\* most maxSnapshots snapshots, and they are the most recently collected
\* ones in the order of their collection: the k-th snapshot collected has
\* the timestamp k, and the history ends with the last one collected.
RingKeepsLatest ==
    /\ Len(snapshots) <= maxSnapshots
    /\ \A i \in 1..Len(snapshots) :
          snapshots[i].timestamp = collected - Len(snapshots) + i

\* The history is full and its oldest snapshot has been dropped.
RingKeepsLatestWitness ==
    /\ Len(snapshots) = maxSnapshots
    /\ collected = maxSnapshots + 1
    /\ snapshots[1].timestamp = 2
    /\ snapshots[maxSnapshots].timestamp = maxSnapshots + 1

\* C30: the predictive module is passive: a step of collectSnapshot or
\* runAnalysis (any step that changes the module's fields) submits no
\* command to the kernel and leaves the state of the other plugins as it
\* is.
PredictiveIsPassive ==
    [][(<<snapshots, predictions, isAnalyzing, collected, analyzed, runOutcome>>'
            # <<snapshots, predictions, isAnalyzing, collected, analyzed, runOutcome>>)
          => UNCHANGED <<kvars, svars, voltageHistory, trimHistory, testResults,
                         coolantTemp>>]_vars

\* A snapshot was collected from a battery reading that is still in the
\* battery plugin's history, and an analysis of it has completed.
PredictiveIsPassiveWitness ==
    /\ runOutcome = "complete"
    /\ collected > Len(storedSnapshots)
    /\ voltageHistory # <<>>
    /\ "battery" \in DOMAIN analyzed[Len(analyzed)].data
    /\ analyzed[Len(analyzed)].data["battery"] = voltageHistory[Len(voltageHistory)]

(***************************************************************************)
(* The plugin loader.  loadPlugins appends one script element per entry of *)
(* PLUGINS and awaits its load (or its error) before the next; a script    *)
(* that loads runs at once: it registers its app in System.activeApps and  *)
(* calls its init().                                                       *)
(***************************************************************************)
PLUGINS ==
    <<"core/kernel.js", "core/pids.js", "core/dashboard.js", "core/diagnostics.js",
      "apps/timing.js", "apps/emissions.js", "apps/battery.js", "apps/readiness.js",
      "apps/freezeframe.js", "plugins/vin.js", "apps/recorder.js",
      "plugins/engine.js", "plugins/monitoring.js">>

\* The script of the next entry loads and runs: its app is registered and
\* its init() is called; DashboardApp.init calls activatePlugins.  The
\* samplers' init() leaves isActive as declared (false).
ScriptLoads ==
      \* DashboardApp.activatePlugins: activate() of the samplers registered at
      \* the time of the call
  LET activatePlugins(registered) == {"timing", "emissions", "battery"} \cap registered
  IN
      \* the id under which a script registers its app ("none": pids.js registers
      \* no app)
  LET AppOf(plugin) ==
          CASE plugin = "core/kernel.js" -> "kernel"
            [] plugin = "core/pids.js" -> "none"
            [] plugin = "core/dashboard.js" -> "dashboard"
            [] plugin = "core/diagnostics.js" -> "diagnostics"
            [] plugin = "apps/timing.js" -> "timing"
            [] plugin = "apps/emissions.js" -> "emissions"
            [] plugin = "apps/battery.js" -> "battery"
            [] plugin = "apps/readiness.js" -> "readiness"
            [] plugin = "apps/freezeframe.js" -> "freezeframe"
            [] plugin = "plugins/vin.js" -> "vin"
            [] plugin = "apps/recorder.js" -> "recorder"
            [] plugin = "plugins/engine.js" -> "engine"
            [] plugin = "plugins/monitoring.js" -> "monitoring"
  IN
    /\ loaded < Len(PLUGINS)
    /\ LET a == AppOf(PLUGINS[loaded + 1])
           apps == activeApps \cup ({a} \ {"none"})
       IN /\ activeApps' = apps
          /\ pluginActive' = IF a = "dashboard"
                              THEN pluginActive \cup activatePlugins(apps)
                              ELSE pluginActive
    /\ loaded' = loaded + 1
    /\ UNCHANGED <<kvars, svars, ivars, dvars, pvars, isScanning, awaited,
                   isRecording, recordedData, captureLoops>>

\* The script of the next entry fails to load: the error is logged and the
\* loop goes on.
ScriptFails ==
    /\ loaded < Len(PLUGINS)
    /\ loaded' = loaded + 1
    /\ UNCHANGED <<activeApps, pluginActive, isScanning, awaited, isRecording,
                   recordedData, captureLoops>>
    /\ UNCHANGED <<kvars, svars, ivars, dvars, pvars>>

LoaderInit ==
    /\ InitKernel
    /\ InitSampler("none")
    /\ InitSession
    /\ InitDecoder
    /\ InitPredictive(<<>>, <<>>, 70)
    /\ InitHost

LoaderNext ==
    \/ ScriptLoads
    \/ ScriptFails

LoaderSpec == LoaderInit /\ [][LoaderNext]_vars

\* C32: once the plugin loader has loaded every plugin in PLUGINS order, the
\* timing, emissions and battery samplers have been activated by the
\* dashboard's auto-activation (their isActive is true).
LoaderActivatesSamplers ==
    (loaded = Len(PLUGINS) /\ {"dashboard", "timing", "emissions", "battery"} \subseteq activeApps)
        => {"timing", "emissions", "battery"} \subseteq pluginActive

(***************************************************************************)
(* The locks of the Diagnostics scan and of the Dashboard stream over the  *)
(* kernel: DiagnosticsApp.readCodes and DashboardApp.update set their flag, *)
(* await window.obd.sendCommand and clear the flag in a finally.           *)
(***************************************************************************)
\* this.isScanning / this.isBusy is assigned; nothing else of the apps moves.
SetLock(a, v) ==
    /\ isScanning' = IF a = "diagnostics" THEN v ELSE isScanning
    /\ isBusy' = IF a = "dashboard" THEN v ELSE isBusy
    /\ UNCHANGED <<app, obd, obdConnected, obdWriter, obdClosing, obdQueue, obdBuffer,
                   obdProcessing, cooling, request, step, supported, consecutiveErrors,
                   historyLength, isActive, updateInterval, dashVisible,
                   staleWrite, succeeded, failedCycles>>
    /\ UNCHANGED <<ivars, dvars, pvars, loaded, activeApps, pluginActive,
                   isRecording, recordedData, captureLoops>>

\* The app runs up to its next "await window.obd.sendCommand(..)".
\* readCodes: "if (this.isScanning) return; this.isScanning = true;" and the
\* request of mode 03.  Dashboard: tick() passes with the kernel connected
\* and isBusy false, update() sets isBusy and fetchHardwareData sends its
\* first request; once that is answered it sends the next one.  Both use
\* the default timeout of sendCommand, the longest one told apart here.
AwaitSendCommand(a) ==
    LET held == IF a = "diagnostics" THEN isScanning ELSE isBusy
        t == CHOOSE u \in Timeouts : \A v \in Timeouts : v <= u
    IN
    /\ IF held THEN a = "dashboard" /\ phase[awaited[a]] = "resolved"
               ELSE a = "dashboard" => connected
    /\ nextId <= MaxCmds
    /\ LET c == nextId
           k == [KState EXCEPT !.q = Push(@, c), !.ph[c] = "queued"]
       IN SetKState(processQueue(k, sinceLastCommand))
    /\ timeoutOf' = [timeoutOf EXCEPT ![nextId] = t]
    /\ nextId' = nextId + 1
    /\ awaited' = [awaited EXCEPT ![a] = nextId]
    /\ SetLock(a, TRUE)
    /\ UNCHANGED <<connected, writer, transport, closing, sinceLastCommand, result,
                   settleOrder, everDisconnected>>

\* The awaited promise is settled: the try block ends, or its catch runs,
\* and "finally { this.isScanning = false; }" / "this.isBusy = false".
ReleaseLock(a) ==
    /\ IF a = "diagnostics" THEN isScanning ELSE isBusy
    /\ phase[awaited[a]] \in {"resolved", "rejected"}
    /\ awaited' = [awaited EXCEPT ![a] = 0]
    /\ SetLock(a, FALSE)
    /\ UNCHANGED kvars

\* The two apps are the only senders of commands.
LockNext ==
    \/ Connect
    \/ \E a \in {"diagnostics", "dashboard"} : AwaitSendCommand(a)
    \/ \E c \in CmdIds : DelayElapsed(c)
    \/ \E c \in CmdIds : handleIncomingData(c)
    \/ \E c \in CmdIds : ResponseFound(c)
    \/ \E c \in CmdIds : ResponseTimeout(c)
    \/ TransportFails
    \/ \E c \in CmdIds : WriteFailed(c)
    \/ disconnect
    \/ DisconnectFinish
    \/ Tick
    \/ \E a \in {"diagnostics", "dashboard"} : ReleaseLock(a)

\* Timers run, every suspended step of the kernel that can go on does so,
\* and a continuation whose promise is settled is run.
LockSpec ==
    /\ Init
    /\ [][LockNext]_vars
    /\ WF_vars(Tick)
    /\ WF_vars(DisconnectFinish)
    /\ \A c \in CmdIds : /\ WF_vars(DelayElapsed(c))
                         /\ WF_vars(ResponseFound(c))
                         /\ WF_vars(ResponseTimeout(c))
                         /\ WF_vars(WriteFailed(c))
    /\ \A a \in {"diagnostics", "dashboard"} : WF_vars(ReleaseLock(a))

\* C34: the Diagnostics scan lock and the Dashboard busy flag are always
\* eventually released, whatever the kernel does meanwhile, a disconnect
\* while the awaited command is queued or in flight included.
LocksReleased ==
    /\ isScanning ~> ~isScanning
    /\ isBusy ~> ~isBusy

(***************************************************************************)
(* The recorder: RecorderApp.startRecording, stopRecording and the capture *)
(* loop, which re-arms itself with a timer of 100 ms.  recordedData is     *)
(* followed by its length.                                                 *)
(***************************************************************************)
\* startRecording(), also through toggleRecording(): the data is emptied
\* and captureLoop() runs at once, up to its setTimeout: it pushes the first
\* snapshot and arms a timer.
StartRecording ==
    /\ ~isRecording
    /\ captureLoops < MaxLoops
    /\ isRecording' = TRUE
    /\ recordedData' = 1
    /\ captureLoops' = captureLoops + 1
    /\ UNCHANGED <<loaded, activeApps, pluginActive, isScanning, awaited>>
    /\ UNCHANGED <<kvars, svars, ivars, dvars, pvars>>

\* stopRecording(), also through toggleRecording() and shutdown(): the
\* flag is cleared; no timer is cancelled.
StopRecording ==
    /\ isRecording
    /\ isRecording' = FALSE
    /\ UNCHANGED <<loaded, activeApps, pluginActive, isScanning, awaited, recordedData,
                   captureLoops>>
    /\ UNCHANGED <<kvars, svars, ivars, dvars, pvars>>

\* A capture timer fires: captureLoop() returns if nothing is recorded;
\* otherwise it pushes a snapshot, and stops the recording if the data is
\* longer than maxRecordingSize, or else arms the next timer.
captureLoop ==
    /\ captureLoops > 0
    /\ IF ~isRecording
       THEN /\ captureLoops' = captureLoops - 1
            /\ UNCHANGED <<isRecording, recordedData>>
       ELSE /\ recordedData' = recordedData + 1
            /\ IF recordedData + 1 > maxRecordingSize
               THEN /\ isRecording' = FALSE
                    /\ captureLoops' = captureLoops - 1
               ELSE UNCHANGED <<isRecording, captureLoops>>
    /\ UNCHANGED <<loaded, activeApps, pluginActive, isScanning, awaited>>
    /\ UNCHANGED <<kvars, svars, ivars, dvars, pvars>>

\* The page as loaded, or a recording that has run for a long time.
RecorderInit ==
    /\ InitKernel
    /\ InitSampler("none")
    /\ InitSession
    /\ InitDecoder
    /\ InitPredictive(<<>>, <<>>, 70)
    /\ loaded = 0
    /\ activeApps = {}
    /\ pluginActive = {}
    /\ isScanning = FALSE
    /\ awaited = [a \in {"diagnostics", "dashboard"} |-> 0]
    /\ \/ isRecording = FALSE /\ recordedData = 0 /\ captureLoops = 0
       \/ isRecording = TRUE /\ recordedData = maxRecordingSize - MaxLoops /\ captureLoops = 1

RecorderNext ==
    \/ StartRecording
    \/ StopRecording
    \/ captureLoop

RecorderSpec == RecorderInit /\ [][RecorderNext]_vars

\* C39: whatever the sequence of startRecording and stopRecording calls, a
\* stop followed by a start within one capture period included, at most one
\* capture loop is scheduled at any time.
OneCaptureLoop ==
    captureLoops <= 1

\* C40: while recording, recordedData never holds more than
\* maxRecordingSize snapshots.
RecordingBounded ==
    recordedData <= maxRecordingSize

====
